---- MODULE Spec2Model ----
(***************************************************************************)
(* Model of the real-time room and session coordination layer of the       *)
(* backend: RoomManager (room registry), RoomHandler (room:* events),      *)
(* ConnectionManager (connections, class presence), RoomPermissionManager  *)
(* (permission evaluator and moderation store), RoomAnalyticsManager       *)
(* (activity records, snapshots, insights), WebSocketSessionManager        *)
(* (sessions) and RateLimiter (per-socket event limits).                   *)
(*                                                                         *)
(* The clock is `now` minutes and `nowMs` milliseconds.  A handler runs as *)
(* one step.  The store operations of RoomPermissionManager and the        *)
(* recording of RoomAnalyticsManager contain no await, so for them this is *)
(* how the code runs; RoomManager.joinRoom, leaveRoom and deleteRoom       *)
(* suspend at socket.join / socket.leave and at the Redis call.  The       *)
(* interleavings of joinRoom at those points are those of SpecJoinRace     *)
(* and SpecDeleteRace; the other specifications leave them out.            *)
(*                                                                         *)
(* The specifications share the state and the handlers:                    *)
(*   Spec            the room lifecycle: create, join, leave, update,      *)
(*                   moderate, over rooms created by room:create;          *)
(*   SpecAccess      the access check of join over group and class rooms;  *)
(*   SpecPresence    connections and class presence over a loaded class;   *)
(*   SpecMute        the moderation store's mutes and warnings, the        *)
(*                   permission evaluator and the status query;            *)
(*   SpecBan         the moderation store's bans against the join paths;   *)
(*   SpecRegistry    the server's createRoom, deleteRoom and a Redis client*)
(*                   that may fail;                                        *)
(*   SpecCleanup     the idle-room cleanup pass against the clock;         *)
(*   SpecMessage     the message checks and their cooldown;                *)
(*   SpecEngagement  activity records, snapshots and insights of a room;   *)
(*   SpecActivity    activity records and snapshots against the clock;     *)
(*   SpecHistory     the metrics history of a room over more than a day;   *)
(*   SpecRank        the permission evaluator's rank test;                 *)
(*   SpecJoinRace    two joins of one room, interleaved at their awaits;   *)
(*   SpecSession     sessions: connect, events, disconnect, validation,    *)
(*                   logout, admin invalidation, cleanup pass, shutdown;   *)
(*   SpecSessionLive SpecSession with the cleanup interval kept firing;    *)
(*   SpecRate        the rate limiter: checks, cleanup passes, the clock;  *)
(*   SpecHealth      the health scores of a room;                          *)
(*   SpecDeleteRace  a join suspended at socket.join and the cleanup pass; *)
(*   SpecDevices     two devices of one actor: join, leave, disconnect,    *)
(*                   cleanup pass;                                         *)
(*   SpecTracking    the socket server's connection, disconnect and        *)
(*                   socket.use middleware with the activity records.      *)
(***************************************************************************)
EXTENDS Integers, FiniteSets, Sequences, TLC

\* ---------------------------------------------------------------- bounds
MaxCreated == 1      \* rooms created through room:create
MaxCap == 2          \* largest maxMembers a request carries
MaxActive == 2       \* cap on a room's activeMembers counter
MaxTime == 20        \* the clock stops advancing here
MaxWarn == 3         \* cap on a warning counter
MaxDur == 1          \* largest explicit duration (minutes) a request carries
MaxIdleTime == 2160  \* the clock of the cleanup specification stops here (minutes)
MaxMs == 2000        \* the clock of the message specification stops here (milliseconds)
MaxCooldown == 2     \* largest cooldownPeriod (seconds) a configuration carries
MaxLength == 2       \* the maxMessageLength of the configurations
MaxMessages == 11    \* cap on an actor's messagesCount in the engagement specification
MaxRecent == 2       \* cap on an actor's messagesCount in the activity specification
MaxSamples == 2      \* cap on the length of a room's metrics history
MaxActivityTime == 90  \* the clock of the activity specification stops here (minutes)
MaxReactions == 11   \* cap on an actor's reactionsGiven in the health specification
MaxRateMs == 60000   \* the clock of the rate specification stops here (milliseconds)
MaxSessionTime == 1503  \* the clock of the session specification stops here (minutes)
MaxShortTicks == 2   \* short steps of the session clock after each long one

\* ------------------------------------------------------ program constants
DefaultMaxMembers == 50
ClassRoomMaxMembers == 100
DefaultMuteMinutes == 30
DefaultBanMinutes == 1440
WarnMuteMinutes == 10
DefaultTimeoutMinutes == 5
WarnThreshold == 3
CleanupIdleMs == 86400000

\* ------------------------------------------------------------- identities
Users == {"t1", "s1", "a1"}
Sockets == {"k1", "k2", "k3", "k4"}
ClassIds == {1}
NoClass == 0
NoUser == "-"
NoSocket == "-"
NoDuration == -1

\* socket.data.userId: the verified actor id the handshake attached.
SocketUser(s) ==
    CASE s = "k1" -> "s1"
      [] s = "k2" -> "s1"
      [] s = "k3" -> "t1"
      [] OTHER -> "a1"

\* socket.data.userRole.
UserRole(u) ==
    CASE u = "t1" -> "TEACHER"
      [] u = "s1" -> "STUDENT"
      [] OTHER -> "ADMIN"

ClassRoomId(c) == <<"class", c>>
NewRoomId(n) == <<"new", n>>
NoRoomId == <<"none", 0>>
RoomIds == {ClassRoomId(c) : c \in ClassIds} \cup {NewRoomId(n) : n \in 1..MaxCreated}

VARIABLES
    rooms,            \* RoomManager.rooms: roomId -> RoomInfo
    roomMembers,      \* RoomManager.roomMembers: roomId -> userId -> RoomMember
    userRooms,        \* RoomManager.userRooms: userId -> set of roomIds
    created,          \* number of ids createRoom has generated
    sockRooms,        \* socket.io adapter: socket -> rooms it has joined
    conn,             \* socket -> "new" | "open" | "closed"
    ioSockets,        \* io.sockets.sockets: the open sockets in connection order
    sockClassIds,     \* socket.data.classIds
    userConnections,  \* ConnectionManager.userConnections: userId -> socket ids
    classMembers,     \* ConnectionManager.classMembers: classId -> user ids
    mutedUsers,       \* RoomPermissionManager.mutedUsers: <<room, user>> -> expiry
    bannedUsers,      \* RoomPermissionManager.bannedUsers: <<room, user>> -> expiry
    userWarnings,     \* RoomPermissionManager.userWarnings: <<room, user>> -> count
    now,              \* the clock (minutes)
    nowMs,            \* the clock's milliseconds past the minute
    redisUp,          \* whether a call of the Redis client succeeds
    userCooldowns,    \* RoomPermissionManager.userCooldowns: <<room, user>> -> last message time
    acceptedAt,       \* history: <<room, user>> -> time of the last message check that allowed
    userActivities,   \* RoomAnalyticsManager.userActivities: <<room, user>> -> UserActivity
    metricsBuffer,    \* RoomAnalyticsManager.metricsBuffer: room -> the metrics history
    activityLog,      \* history: <<room, user>> -> the session start, whether the session
                      \*   is open, and the times of the recorded message events
    sessions,         \* WebSocketSessionManager.sessions: session id -> SessionInfo
    userSessions,     \* WebSocketSessionManager.userSessions: userId -> session ids
    joining,          \* socket -> where its call of RoomManager.joinRoom is suspended
    limits,           \* RateLimiter.limits: <<socket, event type>> -> RateLimitEntry
    allowedLog,       \* history: <<socket, event type>> -> the reset time the last allowed
                      \*   check reported, and the allowed checks that reported it
    overrideJoined,   \* history: room -> users whose join passed the capacity check as moderators
    last              \* the last operation and what it answered

regVars == <<rooms, roomMembers, userRooms, created, sockRooms, overrideJoined>>
connVars == <<conn, ioSockets, sockClassIds, userConnections, classMembers>>
modVars == <<mutedUsers, bannedUsers, userWarnings>>
anaVars == <<userActivities, metricsBuffer, activityLog>>
sessVars == <<sessions, userSessions>>
rateVars == <<limits, allowedLog>>
extVars == <<anaVars, sessVars, joining, rateVars>>
envVars == <<nowMs, redisUp, userCooldowns, acceptedAt, extVars>>
vars == <<regVars, connVars, modVars, envVars, now, last>>

\* Date.now(), in milliseconds.
DateNow == now * 60000 + nowMs

\* ------------------------------------------------------------ small helpers
Put(f, k, v) == (k :> v) @@ f
Drop(f, k) == [x \in (DOMAIN f) \ {k} |-> f[x]]
EmptyMap == [x \in {} |-> 0]
RemoveFromSeq(q, x) == SelectSeq(q, LAMBDA y : y # x)

\* The registry's mutable maps, passed through the RoomManager operations.
\* With them go the two readings of the environment an operation takes: the
\* clock and whether the Redis client answers.
Reg == [rooms |-> rooms, members |-> roomMembers, index |-> userRooms,
        adapter |-> sockRooms, override |-> overrideJoined,
        clock |-> DateNow, redisUp |-> redisUp]

\* io.to(roomId).except(excludeSocketId).emit(event, data)
broadcastRoomEvent(R, r, event, exclude) ==
    [event |-> event, room |-> r,
     to |-> {s \in Sockets : r \in R.adapter[s]} \ {exclude}]

getDefaultRoomSettings ==
    [allowMessaging |-> TRUE, allowFileSharing |-> TRUE,
     allowVoiceChat |-> FALSE, allowVideoChat |-> FALSE, autoCleanup |-> TRUE]

\* RoomManager.storeRoomInRedis: whether the call throws.  A failure of
\* redis.setex is caught inside and logged.
storeRoomInRedis(up) == FALSE

\* redis.del as deleteRoom calls it: whether the call throws.
redisDel(up) == ~up

\* ------------------------------------------------------------- RoomManager

\* RoomManager.canUserJoinRoom
canUserJoinRoom(u, room) ==
    IF room.isPublic THEN TRUE
    ELSE IF u \in room.memberIds THEN TRUE
    ELSE IF room.roomType = "class" /\ room.classId # NoClass THEN TRUE
    ELSE FALSE

\* The capacity test of joinRoom.
atCapacity(u, room) ==
    Cardinality(room.memberIds) >= room.maxMembers /\ u \notin room.moderatorIds

\* The role joinRoom writes into the RoomMember record.
memberRole(u, room, role) ==
    IF u \in room.moderatorIds THEN "moderator"
    ELSE IF room.ownerId = u THEN "owner" ELSE role

\* The "member joined" broadcast of joinRoom, excluding the joining socket.
joinBroadcast(R, s, r) == <<broadcastRoomEvent(R, r, "user:joined_class", s)>>

\* RoomManager.joinRoom(socket, roomId, {role, validateAccess})
joinRoom(R, s, r, role, validateAccess) ==
    LET u == SocketUser(s) IN
    IF r \notin DOMAIN R.rooms
    THEN [reg |-> R, success |-> FALSE, message |-> "Room not found", bcast |-> <<>>]
    ELSE
    LET room == R.rooms[r] IN
    IF validateAccess /\ ~canUserJoinRoom(u, room)
    THEN [reg |-> R, success |-> FALSE, message |-> "Access denied to this room", bcast |-> <<>>]
    ELSE IF atCapacity(u, room)
    THEN [reg |-> R, success |-> FALSE, message |-> "Room is at maximum capacity", bcast |-> <<>>]
    ELSE
    LET full == Cardinality(room.memberIds) >= room.maxMembers
        room1 == [room EXCEPT !.memberIds = @ \cup {u}, !.activeMembers = @ + 1,
                              !.lastActivity = R.clock]
        member == [userId |-> u, socketId |-> s, role |-> memberRole(u, room, role)]
        R1 == [R EXCEPT !.rooms[r] = room1,
                        !.members[r] = Put(@, u, member),
                        !.index[u] = @ \cup {r},
                        !.adapter[s] = @ \cup {r},
                        !.override[r] = IF u \in room.memberIds THEN @
                                        ELSE IF full THEN @ \cup {u} ELSE @ \ {u}]
    IN IF storeRoomInRedis(R.redisUp)
       THEN [reg |-> R1, success |-> FALSE, message |-> "Failed to join room", bcast |-> <<>>]
       ELSE [reg |-> R1, success |-> TRUE, message |-> "Successfully joined room",
             bcast |-> joinBroadcast(R1, s, r)]

\* joinRoom up to its first suspension, `await socket.join(roomId)`: the checks,
\* and the socket added to the adapter's room by the call of socket.join.
joinRoomCheck(R, s, r, validateAccess) ==
    LET u == SocketUser(s) IN
    IF r \notin DOMAIN R.rooms
    THEN [reg |-> R, passed |-> FALSE, message |-> "Room not found"]
    ELSE IF validateAccess /\ ~canUserJoinRoom(u, R.rooms[r])
    THEN [reg |-> R, passed |-> FALSE, message |-> "Access denied to this room"]
    ELSE IF atCapacity(u, R.rooms[r])
    THEN [reg |-> R, passed |-> FALSE, message |-> "Room is at maximum capacity"]
    ELSE [reg |-> [R EXCEPT !.adapter[s] = @ \cup {r}], passed |-> TRUE, message |-> "-"]

\* joinRoom from the resumption after socket.join to its second suspension,
\* `await this.storeRoomInRedis(room)`: the membership is written, for a room
\* that is still in the room map.
joinRoomInsert(R, s, r, role) ==
    LET u == SocketUser(s)
        room == R.rooms[r]
        full == Cardinality(room.memberIds) >= room.maxMembers
        room1 == [room EXCEPT !.memberIds = @ \cup {u}, !.activeMembers = @ + 1,
                              !.lastActivity = R.clock]
        member == [userId |-> u, socketId |-> s, role |-> memberRole(u, room, role)]
    IN [R EXCEPT !.rooms[r] = room1,
                 !.members[r] = Put(@, u, member),
                 !.index[u] = @ \cup {r},
                 !.override[r] = IF u \in room.memberIds THEN @
                                 ELSE IF full /\ u \in room.moderatorIds THEN @ \cup {u}
                                 ELSE @ \ {u}]

\* The same stretch of joinRoom when the room was deleted while the call was
\* suspended: `room` is the object the call read before it suspended, which
\* is in the room map no more.  The member set and the counter are written on
\* that object; `this.roomMembers.get(roomId) || new Map()` makes a new member
\* map and sets it under the deleted id, and the id goes into the actor's
\* index entry.
joinRoomInsertDeleted(R, s, r, role, room) ==
    LET u == SocketUser(s)
        member == [userId |-> u, socketId |-> s, role |-> memberRole(u, room, role)]
        membersMap == IF r \in DOMAIN R.members THEN R.members[r] ELSE EmptyMap
    IN [R EXCEPT !.members = Put(@, r, Put(membersMap, u, member)),
                 !.index[u] = @ \cup {r}]

\* joinRoom from the resumption after storeRoomInRedis to its return.
joinRoomFinish(R, s, r) ==
    IF storeRoomInRedis(R.redisUp)
    THEN [success |-> FALSE, message |-> "Failed to join room", bcast |-> <<>>]
    ELSE [success |-> TRUE, message |-> "Successfully joined room",
          bcast |-> joinBroadcast(R, s, r)]

\* RoomManager.leaveRoom(socket, roomId, reason)
leaveRoom(R, s, r) ==
    LET u == SocketUser(s) IN
    IF r \notin DOMAIN R.rooms
    THEN [reg |-> R, success |-> FALSE, message |-> "Room not found", bcast |-> <<>>]
    ELSE
    LET room == R.rooms[r]
        room1 == [room EXCEPT !.memberIds = @ \ {u},
                              !.activeMembers = IF @ - 1 > 0 THEN @ - 1 ELSE 0,
                              !.lastActivity = R.clock]
        R1 == [R EXCEPT !.rooms[r] = room1,
                        !.members[r] = Drop(@, u),
                        !.index[u] = @ \ {r},
                        !.adapter[s] = @ \ {r},
                        !.override[r] = @ \ {u}]
    IN IF storeRoomInRedis(R.redisUp)
       THEN [reg |-> R1, success |-> FALSE, message |-> "Failed to leave room", bcast |-> <<>>]
       ELSE [reg |-> R1, success |-> TRUE, message |-> "Successfully left room",
             bcast |-> <<broadcastRoomEvent(R1, r, "user:left_class", NoSocket)>>]

\* RoomManager.createRoom(creatorId, roomData): the registry with the new room,
\* and whether the room was returned (null after an exception).
createRoom(R, id, creatorId, name, roomType, classId, isPublic, maxMembers) ==
    LET room == [name |-> name, roomType |-> roomType, classId |-> classId,
                 ownerId |-> creatorId,
                 moderatorIds |-> {creatorId}, memberIds |-> {creatorId},
                 isPublic |-> isPublic,
                 maxMembers |-> IF maxMembers # 0 THEN maxMembers ELSE DefaultMaxMembers,
                 activeMembers |-> 0, settings |-> getDefaultRoomSettings,
                 lastActivity |-> R.clock]
        R1 == [R EXCEPT !.rooms = Put(@, id, room),
                        !.members = Put(@, id, EmptyMap),
                        !.index[creatorId] = @ \cup {id},
                        !.override = Put(@, id, {})]
    IN [reg |-> R1, returned |-> ~storeRoomInRedis(R.redisUp)]

\* RoomManager.getUserRooms
getUserRooms(R, u) == R.index[u] \cap DOMAIN R.rooms

\* RoomManager.updateRoomSettings: the settings merged with the partial ones.
mergeSettings(settings, partial) ==
    [k \in DOMAIN settings |-> IF k \in DOMAIN partial THEN partial[k] ELSE settings[k]]

\* deleteRoom emitting its notice after the member sockets have left the room.
deleteNoticeAfterEviction(before, evicted, r) ==
    broadcastRoomEvent(evicted, r, "system:announcement", NoSocket)

\* The notice of deleteRoom: emitted first, to the sockets then in the room.
deleteNotice(before, evicted, r) ==
    broadcastRoomEvent(before, r, "system:announcement", NoSocket)

\* RoomManager.deleteRoom(roomId, reason).  The socket of a member record that
\* has closed is in no room any more, so its socket.leave changes nothing.
deleteRoom(R, r) ==
    IF r \notin DOMAIN R.rooms
    THEN [reg |-> R, success |-> FALSE, bcast |-> <<>>]
    ELSE
    LET memberSockets == {R.members[r][u].socketId : u \in DOMAIN R.members[r]}
        evicted == [R EXCEPT !.adapter = [s \in DOMAIN @ |->
                                            IF s \in memberSockets THEN @[s] \ {r} ELSE @[s]]]
        R1 == [evicted EXCEPT !.rooms = Drop(@, r),
                              !.members = Drop(@, r),
                              !.index = [u \in DOMAIN @ |-> @[u] \ {r}],
                              !.override = Drop(@, r)]
    IN [reg |-> R1, success |-> ~redisDel(R.redisUp),
        bcast |-> <<deleteNotice(R, evicted, r)>>]

\* The test of performCleanup: the room is cleaned up at time t.
shouldCleanup(room, t) ==
    /\ room.settings.autoCleanup
    /\ t - room.lastActivity > CleanupIdleMs
    /\ room.activeMembers = 0

\* RoomManager.performCleanup, over the room ids in the order of the map.
RECURSIVE performCleanup(_, _)
performCleanup(R, todo) ==
    IF todo = <<>> THEN [reg |-> R, bcast |-> <<>>]
    ELSE
    LET r == Head(todo)
        d == IF r \in DOMAIN R.rooms /\ shouldCleanup(R.rooms[r], R.clock)
             THEN deleteRoom(R, r)
             ELSE [reg |-> R, success |-> FALSE, bcast |-> <<>>]
        rest == performCleanup(d.reg, Tail(todo))
    IN [reg |-> rest.reg, bcast |-> d.bcast \o rest.bcast]

\* --------------------------------------------------- RoomPermissionManager

\* isUserMuted without the expiry test: a stored mute counts whatever the time.
isUserMutedIgnoringExpiry(muted, r, u, t) == <<r, u>> \in DOMAIN muted

\* RoomPermissionManager.isUserMuted: the answer at time t.
isUserMuted(muted, r, u, t) ==
    IF <<r, u>> \notin DOMAIN muted THEN FALSE
    ELSE IF t > muted[<<r, u>>] THEN FALSE
    ELSE TRUE

\* RoomPermissionManager.isUserBanned: the answer at time t.
isUserBanned(banned, r, u, t) ==
    IF <<r, u>> \notin DOMAIN banned THEN FALSE
    ELSE IF t > banned[<<r, u>>] THEN FALSE
    ELSE TRUE

\* The delete isUserMuted and isUserBanned perform on an expired entry.
purgeExpired(map, r, u, t) ==
    IF <<r, u>> \in DOMAIN map /\ t > map[<<r, u>>] THEN Drop(map, <<r, u>>) ELSE map

\* RoomPermissionManager.getUserWarnings
getUserWarnings(warnings, r, u) ==
    IF <<r, u>> \in DOMAIN warnings THEN warnings[<<r, u>>] ELSE 0

\* isMutedAction with only message:send in the list.
isMutedActionMessagesOnly(action) == action = "message:send"

\* RoomPermissionManager.isMutedAction
isMutedAction(action) ==
    action \in {"message:send", "voice:join", "video:join", "file:upload"}

\* RoomPermissionManager.isTargetHigherRank
isTargetHigherRank(actorId, targetId, room) ==
    LET isActorOwner == room.ownerId = actorId
        isActorModerator == actorId \in room.moderatorIds
        isTargetOwner == room.ownerId = targetId
        isTargetModerator == targetId \in room.moderatorIds
    IN IF isTargetOwner THEN ~isActorOwner
       ELSE IF isTargetModerator THEN ~isActorOwner /\ ~isActorModerator
       ELSE FALSE

Allow == [allowed |-> TRUE, reason |-> "-"]
Deny(reason) == [allowed |-> FALSE, reason |-> reason]

\* RoomPermissionManager.checkActionPermission
checkActionPermission(u, room, action, target) ==
    LET isOwner == room.ownerId = u
        isModerator == u \in room.moderatorIds
        isAdmin == UserRole(u) = "ADMIN"
    IN
    CASE action = "message:send" ->
            IF ~room.settings.allowMessaging
            THEN Deny("Messaging is disabled in this room") ELSE Allow
      [] action = "file:upload" ->
            IF ~room.settings.allowFileSharing
            THEN Deny("File sharing is disabled in this room") ELSE Allow
      [] action = "voice:join" ->
            IF ~room.settings.allowVoiceChat
            THEN Deny("Voice chat is disabled in this room") ELSE Allow
      [] action = "video:join" ->
            IF ~room.settings.allowVideoChat
            THEN Deny("Video chat is disabled in this room") ELSE Allow
      [] action \in {"member:mute", "member:unmute", "member:warn", "member:kick"} ->
            IF isAdmin \/ isOwner \/ isModerator
            THEN IF target = u /\ action # "member:unmute"
                 THEN Deny("Cannot perform this action on yourself")
                 ELSE IF target # NoUser /\ isTargetHigherRank(u, target, room)
                 THEN Deny("Cannot moderate users with higher privileges")
                 ELSE Allow
            ELSE Deny("Moderator privileges required")
      [] action \in {"member:ban", "member:unban"} ->
            IF isAdmin \/ isOwner
            THEN IF target # NoUser /\ isTargetHigherRank(u, target, room)
                 THEN Deny("Cannot ban users with higher privileges")
                 ELSE Allow
            ELSE Deny("Owner privileges required")
      [] action \in {"member:promote", "member:demote"} ->
            IF isAdmin \/ isOwner THEN Allow ELSE Deny("Owner privileges required")
      [] action \in {"room:update_settings", "room:delete"} ->
            IF isAdmin \/ isOwner THEN Allow ELSE Deny("Owner privileges required")
      [] action = "room:invite" ->
            IF room.isPublic \/ isAdmin \/ isOwner \/ isModerator
            THEN Allow ELSE Deny("Invitation privileges required")
      [] action = "analytics:view" ->
            IF isAdmin \/ isOwner \/ isModerator
            THEN Allow ELSE Deny("Analytics access requires moderation privileges")
      [] OTHER -> Allow

\* RoomPermissionManager.hasRoomPermission: the decision, with the maps as the
\* lazy purges of isUserBanned and isUserMuted leave them.
hasRoomPermission(R, muted, banned, t, s, r, action, target) ==
    LET u == SocketUser(s) IN
    IF r \notin DOMAIN R.rooms
    THEN [res |-> Deny("Room not found"), muted |-> muted, banned |-> banned]
    ELSE IF u \notin R.rooms[r].memberIds
    THEN [res |-> Deny("Not a member of this room"), muted |-> muted, banned |-> banned]
    ELSE IF isUserBanned(banned, r, u, t)
    THEN [res |-> Deny("User is banned from this room"), muted |-> muted, banned |-> banned]
    ELSE
    LET banned1 == purgeExpired(banned, r, u, t)
        muted1 == purgeExpired(muted, r, u, t)
    IN
    IF isUserMuted(muted, r, u, t) /\ isMutedAction(action)
    THEN [res |-> Deny("User is muted in this room"), muted |-> muted1, banned |-> banned1]
    ELSE IF u \notin DOMAIN R.members[r]
    THEN [res |-> Deny("User not found in room members"), muted |-> muted1, banned |-> banned1]
    ELSE [res |-> checkActionPermission(u, R.rooms[r], action, target),
          muted |-> muted1, banned |-> banned1]

\* The moderation store's maps, passed through its operations.
Store == [muted |-> mutedUsers, banned |-> bannedUsers, warnings |-> userWarnings]

\* The test `duration ? ... : ...` of applyModerationAction: an absent duration
\* and a duration of 0 both take the default.
durationGiven(duration) == duration # NoDuration /\ duration # 0

\* The auto-mute test with > in place of >=.
reachedWarnLimitLate(warningCount) == warningCount > WarnThreshold

\* The auto-mute test of the warn case.
reachedWarnLimit(warningCount) == warningCount >= WarnThreshold

\* RoomPermissionManager.addUserWarning
addUserWarning(warnings, r, u) == Put(warnings, <<r, u>>, getUserWarnings(warnings, r, u) + 1)

\* RoomPermissionManager.applyModerationAction: the store after the action,
\* whether it reported success, and its message.
applyModerationAction(R, M, t, type, r, target, duration) ==
    IF r \notin DOMAIN R.rooms
    THEN [store |-> M, success |-> FALSE, message |-> "Room not found"]
    ELSE
    CASE type = "mute" ->
            LET muteExpiry == IF durationGiven(duration) THEN t + duration
                              ELSE t + DefaultMuteMinutes
            IN [store |-> [M EXCEPT !.muted = Put(@, <<r, target>>, muteExpiry)],
                success |-> TRUE, message |-> "User muted"]
      [] type = "unmute" ->
            [store |-> [M EXCEPT !.muted = Drop(@, <<r, target>>)],
             success |-> TRUE, message |-> "User unmuted"]
      [] type = "ban" ->
            LET banExpiry == IF durationGiven(duration) THEN t + duration
                             ELSE t + DefaultBanMinutes
            IN [store |-> [M EXCEPT !.banned = Put(@, <<r, target>>, banExpiry)],
                success |-> TRUE, message |-> "User banned"]
      [] type = "unban" ->
            [store |-> [M EXCEPT !.banned = Drop(@, <<r, target>>)],
             success |-> TRUE, message |-> "User unbanned"]
      [] type = "warn" ->
            LET warnings1 == addUserWarning(M.warnings, r, target)
                warningCount == getUserWarnings(warnings1, r, target)
            IN IF reachedWarnLimit(warningCount)
               THEN [store |-> [M EXCEPT !.warnings = warnings1,
                                         !.muted = Put(@, <<r, target>>, t + WarnMuteMinutes)],
                     success |-> TRUE,
                     message |-> "User warned - Auto-muted for repeated warnings"]
               ELSE [store |-> [M EXCEPT !.warnings = warnings1],
                     success |-> TRUE, message |-> "User warned"]
      [] type = "timeout" ->
            LET timeoutDuration == IF durationGiven(duration) THEN duration
                                   ELSE DefaultTimeoutMinutes
            IN [store |-> [M EXCEPT !.muted = Put(@, <<r, target>>, t + timeoutDuration)],
                success |-> TRUE, message |-> "User timed out"]
      [] type = "kick" ->
            [store |-> M, success |-> TRUE, message |-> "User kicked from room"]
      [] OTHER ->
            [store |-> M, success |-> FALSE, message |-> "Unknown moderation action"]

\* isUserInCooldown answering that no actor is ever in cooldown.
isUserInCooldownNever(cooldowns, r, u, cooldownSeconds, t) == FALSE

\* RoomPermissionManager.isUserInCooldown at time t (milliseconds): the code
\* divides the difference by 1000 and compares it with the seconds.
isUserInCooldown(cooldowns, r, u, cooldownSeconds, t) ==
    IF <<r, u>> \notin DOMAIN cooldowns THEN FALSE
    ELSE t - cooldowns[<<r, u>>] < cooldownSeconds * 1000

\* RoomPermissionManager.updateUserCooldown
updateUserCooldown(cooldowns, r, u, t) == Put(cooldowns, <<r, u>>, t)

\* RoomPermissionManager.detectSpam: a placeholder that returns false.
detectSpam(r, u, length, threshold) == FALSE

\* RoomPermissionManager.checkMessageContent, for content of the given length.
checkMessageContent(cooldowns, t, r, u, length, config) ==
    IF length > config.maxMessageLength
    THEN [allowed |-> FALSE, reason |-> "Message too long", autoAction |-> FALSE,
          cooldowns |-> cooldowns]
    ELSE IF isUserInCooldown(cooldowns, r, u, config.cooldownPeriod, t)
    THEN [allowed |-> FALSE, reason |-> "Please wait between messages", autoAction |-> FALSE,
          cooldowns |-> cooldowns]
    ELSE IF detectSpam(r, u, length, config.spamThreshold)
    THEN [allowed |-> FALSE, reason |-> "Spam detected - auto-muted", autoAction |-> TRUE,
          cooldowns |-> cooldowns]
    ELSE [allowed |-> TRUE, reason |-> "-", autoAction |-> FALSE,
          cooldowns |-> updateUserCooldown(cooldowns, r, u, t)]

\* RoomPermissionManager.getUserModerationStatus: the expiries are read before
\* isUserMuted and isUserBanned purge the expired entries.
getUserModerationStatus(M, t, r, u) ==
    [status |-> [isMuted |-> isUserMuted(M.muted, r, u, t),
                 hasMuteExpiry |-> <<r, u>> \in DOMAIN M.muted,
                 muteExpiry |-> IF <<r, u>> \in DOMAIN M.muted THEN M.muted[<<r, u>>] ELSE 0,
                 isBanned |-> isUserBanned(M.banned, r, u, t),
                 hasBanExpiry |-> <<r, u>> \in DOMAIN M.banned,
                 banExpiry |-> IF <<r, u>> \in DOMAIN M.banned THEN M.banned[<<r, u>>] ELSE 0,
                 warnings |-> getUserWarnings(M.warnings, r, u)],
     store |-> [M EXCEPT !.muted = purgeExpired(@, r, u, t),
                         !.banned = purgeExpired(@, r, u, t)]]

\* RoomPermissionManager.cleanupExpiredActions, for one of the two maps.
cleanupExpiredActions(map, t) ==
    [k \in {x \in DOMAIN map : ~(t > map[x])} |-> map[k]]

\* ------------------------------------------------------------- RateLimiter

\* The limits the constructor configures, all with the default flags
\* skipSuccessfulRequests = false and skipFailedRequests = false.
RateConfigs ==
    [eventType \in {"message:send", "message:edit", "message:delete", "typing:start",
                    "join:class", "leave:class"} |->
        [maxRequests |-> CASE eventType = "message:send" -> 30
                           [] eventType = "message:edit" -> 10
                           [] eventType = "message:delete" -> 5
                           [] eventType = "typing:start" -> 60
                           [] OTHER -> 10,
         windowMs |-> 60000,
         skipSuccessfulRequests |-> FALSE,
         skipFailedRequests |-> FALSE]]

\* The window test of checkLimit with > in place of >=.
windowExpiredLate(entry, t) == t > entry.resetTime

\* The window test of checkLimit and of cleanup.
windowExpired(entry, t) == t >= entry.resetTime

\* RateLimiter.checkLimit
checkLimit(L, s, eventType, t) ==
    IF eventType \notin DOMAIN RateConfigs
    THEN [limits |-> L, allowed |-> TRUE, limited |-> FALSE, remaining |-> 0,
          resetTime |-> t + 3600000, total |-> 0]
    ELSE
    LET config == RateConfigs[eventType]
        k == <<s, eventType>>
        entry == IF k \notin DOMAIN L \/ windowExpired(L[k], t)
                 THEN [count |-> 0, resetTime |-> t + config.windowMs, firstRequest |-> t]
                 ELSE L[k]
        allowed == entry.count < config.maxRequests
        entry1 == IF allowed THEN [entry EXCEPT !.count = @ + 1] ELSE entry
        left == config.maxRequests - entry1.count
    IN [limits |-> Put(L, k, entry1), allowed |-> allowed, limited |-> TRUE,
        remaining |-> IF left > 0 THEN left ELSE 0,
        resetTime |-> entry1.resetTime, total |-> config.maxRequests]

\* RateLimiter.recordSuccess and RateLimiter.recordFailure, for the flag of the
\* configuration that each of them reads.
recordOutcome(L, s, eventType, flag) ==
    LET k == <<s, eventType>> IN
    IF eventType \notin DOMAIN RateConfigs \/ ~RateConfigs[eventType][flag] THEN L
    ELSE IF k \in DOMAIN L /\ L[k].count > 0 THEN [L EXCEPT ![k].count = @ - 1]
    ELSE L

\* RateLimiter.cleanup
rateCleanup(L, t) == [k \in {x \in DOMAIN L : ~windowExpired(L[x], t)} |-> L[k]]

\* ------------------------------------------------- WebSocketSessionManager
\* A session is named by the id of the socket it was created for; V is the pair
\* of the manager's maps, [sessions, userSessions].

SessionTtlMs == 24 * 60 * 60 * 1000
SessionIdleMs == 3600000

\* WebSocketSessionManager.createSession
createSession(V, s, t) ==
    [sessions |-> Put(V.sessions, s,
                      [userId |-> SocketUser(s), socketId |-> s, lastActivity |-> t,
                       expiresAt |-> t + SessionTtlMs, isActive |-> TRUE]),
     userSessions |-> [V.userSessions EXCEPT ![SocketUser(s)] = @ \cup {s}]]

\* WebSocketSessionManager.updateSessionActivity
updateSessionActivity(V, id, t) ==
    IF id \in DOMAIN V.sessions THEN [V EXCEPT !.sessions[id].lastActivity = t] ELSE V

\* WebSocketSessionManager.getUserSessions
getUserSessions(V, u) ==
    {id \in V.userSessions[u] : id \in DOMAIN V.sessions /\ V.sessions[id].isActive}

\* WebSocketSessionManager.invalidateSession: the session leaves both maps, and
\* its socket is the one to disconnect if it is still connected.
invalidateSession(V, id) ==
    IF id \notin DOMAIN V.sessions
    THEN [store |-> V, success |-> FALSE, socket |-> NoSocket]
    ELSE [store |-> [sessions |-> Drop(V.sessions, id),
                     userSessions |-> [V.userSessions EXCEPT
                                           ![V.sessions[id].userId] = @ \ {id}]],
          success |-> TRUE, socket |-> V.sessions[id].socketId]

\* invalidateSession for each id of a loop, with the count of the successes and
\* the sockets to disconnect. The invalidation of one session leaves the entries
\* of the others as they are, so the outcome of the loop is written at once.
invalidateEach(V, ids) ==
    LET done == {id \in ids : invalidateSession(V, id).success}
    IN [store |-> [sessions |-> [x \in DOMAIN V.sessions \ done |-> V.sessions[x]],
                   userSessions |-> [u \in DOMAIN V.userSessions |->
                                        V.userSessions[u] \ done]],
        count |-> Cardinality(done),
        sockets |-> {invalidateSession(V, id).socket : id \in done}]

\* WebSocketSessionManager.invalidateUserSessions
invalidateUserSessions(V, u) == invalidateEach(V, getUserSessions(V, u))

\* handleDisconnection invalidating the session of the socket that closed.
handleDisconnectionEvicting(V, s, t) == invalidateSession(V, s).store

\* WebSocketSessionManager.handleDisconnection: the session of the socket is
\* kept, with its lastActivity set to the time of the disconnect.
handleDisconnection(V, s, t) ==
    IF s \in DOMAIN V.sessions THEN [V EXCEPT !.sessions[s].lastActivity = t] ELSE V

\* WebSocketSessionManager.validateSocketSession
validateSocketSession(V, s, t) ==
    IF s \notin DOMAIN V.sessions \/ ~V.sessions[s].isActive
    THEN [store |-> V, success |-> FALSE, error |-> "Session not found or inactive",
          sockets |-> {}]
    ELSE IF t > V.sessions[s].expiresAt
    THEN [store |-> invalidateSession(V, s).store, success |-> FALSE,
          error |-> "Session expired", sockets |-> {invalidateSession(V, s).socket}]
    ELSE [store |-> updateSessionActivity(V, s, t), success |-> TRUE, error |-> "-",
          sockets |-> {}]

\* WebSocketSessionManager.handleLogout
handleLogout(V, s, allDevices) ==
    IF allDevices THEN invalidateUserSessions(V, SocketUser(s))
    ELSE invalidateEach(V, {s} \cap DOMAIN V.sessions)

\* The two tests of cleanupExpiredSessions.
isSessionExpired(session, t) == t > session.expiresAt \/ ~session.isActive
isSessionIdle(session, t) == t - session.lastActivity > SessionIdleMs

\* WebSocketSessionManager.cleanupExpiredSessions
cleanupExpiredSessions(V, t) ==
    invalidateEach(V, {id \in DOMAIN V.sessions :
                          \/ isSessionExpired(V.sessions[id], t)
                          \/ isSessionIdle(V.sessions[id], t)})

\* WebSocketSessionManager.destroy
destroy(V) == invalidateEach(V, DOMAIN V.sessions)

\* ---------------------------------------------------- RoomAnalyticsManager

OneHourMs == 3600000
OneDayMs == 86400000
MsPerMinute == 60000

\* The UserActivity record recordUserActivity creates at time t.
newUserActivity(t) ==
    [messagesCount |-> 0, lastActivity |-> t, sessionStart |-> t, totalTimeSpent |-> 0,
     fileUploads |-> 0, reactionsGiven |-> 0, mentionsReceived |-> 0,
     isCurrentlyActive |-> TRUE]

\* The leave case adding the session time whether or not the session is open.
leaveClosesSessionAlways(activity) == TRUE

\* The test of the leave case of recordUserActivity.
leaveClosesSession(activity) == activity.isCurrentlyActive

\* The sessionDuration of the leave case, in minutes; the division is exact for
\* the whole-minute clock readings of the analytics specifications.
sessionDuration(activity, t) == (t - activity.sessionStart) \div MsPerMinute

\* RoomAnalyticsManager.recordUserActivity at time t.
recordUserActivity(A, r, u, activityType, t) ==
    LET a0 == IF <<r, u>> \in DOMAIN A THEN A[<<r, u>>] ELSE newUserActivity(t)
        a1 == CASE activityType = "message" -> [a0 EXCEPT !.messagesCount = @ + 1]
                [] activityType = "file_upload" -> [a0 EXCEPT !.fileUploads = @ + 1]
                [] activityType = "reaction" -> [a0 EXCEPT !.reactionsGiven = @ + 1]
                [] activityType = "mention" -> [a0 EXCEPT !.mentionsReceived = @ + 1]
                [] activityType = "join" ->
                      [a0 EXCEPT !.sessionStart = t, !.isCurrentlyActive = TRUE]
                [] activityType = "leave" ->
                      IF leaveClosesSession(a0)
                      THEN [a0 EXCEPT !.totalTimeSpent = @ + sessionDuration(a0, t),
                                      !.isCurrentlyActive = FALSE]
                      ELSE a0
                [] OTHER -> a0
    IN Put(A, <<r, u>>, [a1 EXCEPT !.lastActivity = t])

\* The keys of the activities tracked for room r.
roomActivities(A, r) == {k \in DOMAIN A : k[1] = r}

\* The reduce of generateRoomMetrics: the sum of one field over activities.
RECURSIVE sumField(_, _, _)
sumField(A, keys, field) ==
    IF keys = {} THEN 0
    ELSE LET k == CHOOSE x \in keys : TRUE
         IN A[k][field] + sumField(A, keys \ {k}, field)

\* The engagement tier of calculateUserEngagement; "none" when the activity
\* falls in no branch of the chain.
engagementTier(activity) ==
    LET hourlyMessages == activity.messagesCount IN
    IF hourlyMessages > 10 THEN "veryActive"
    ELSE IF hourlyMessages >= 3 THEN "active"
    ELSE IF hourlyMessages >= 1 THEN "passive"
    ELSE IF activity.isCurrentlyActive THEN "lurkers"
    ELSE "none"

\* RoomAnalyticsManager.calculateUserEngagement
calculateUserEngagement(A, keys) ==
    [tier \in {"veryActive", "active", "passive", "lurkers"} |->
        Cardinality({k \in keys : engagementTier(A[k]) = tier})]

\* The filter of recentActivities: active within the hour before t.
isRecent(activity, t) == activity.lastActivity > t - OneHourMs

\* The history filter keeping every sample.
withinDayAlways(sample, t) == TRUE

\* The filter of the metrics history: sampled within the day before t.
withinDay(sample, t) == sample.timestamp > t - OneDayMs

\* An average the code computes as a quotient of numbers: the pair of the sum
\* and the count, <<0, 1>> for the code's 0 of the empty case.
Average(sum, n) == IF n > 0 THEN <<sum, n>> ELSE <<0, 1>>

\* RoomAnalyticsManager.generateRoomMetrics at time t: the metrics returned
\* (found = FALSE for null) and the metrics history afterwards.  The
\* room's peakConcurrentUsers is copied from the registry and is left out.
generateRoomMetrics(R, A, B, r, t) ==
    IF r \notin DOMAIN R.rooms
    THEN [found |-> FALSE, metrics |-> <<>>, buffer |-> B]
    ELSE
    LET all == roomActivities(A, r)
        recent == {k \in all : isRecent(A[k], t)}
        activeSessions == {k \in recent : A[k].isCurrentlyActive}
        metrics == [timestamp |-> t,
                    activeUsers |-> Cardinality({k \in all : A[k].isCurrentlyActive}),
                    totalMessages |-> sumField(A, all, "messagesCount"),
                    messagesPerHour |-> sumField(A, recent, "messagesCount"),
                    averageMessageLength |-> 0,
                    userEngagement |-> calculateUserEngagement(A, all),
                    averageSessionDuration |->
                        Average(sumField(A, activeSessions, "totalTimeSpent"),
                                Cardinality(activeSessions)),
                    fileUploads |-> sumField(A, all, "fileUploads"),
                    moderationActions |-> 0]
        history == Append(IF r \in DOMAIN B THEN B[r] ELSE <<>>, metrics)
    IN [found |-> TRUE, metrics |-> metrics,
        buffer |-> Put(B, r, SelectSeq(history, LAMBDA m : withinDay(m, t)))]

\* RoomAnalyticsManager.getPeriodStart; the code writes the week and the month
\* as 604800000 and 2592000000 milliseconds.
getPeriodStart(t, period) ==
    CASE period = "hour" -> t - OneHourMs
      [] period = "day" -> t - OneDayMs
      [] period = "week" -> t - 7 * OneDayMs
      [] period = "month" -> t - 30 * OneDayMs
      [] OTHER -> t - OneDayMs

\* The reduce of generateRoomInsights that finds the peak activity.
RECURSIVE peakActivity(_, _)
peakActivity(samples, peak) ==
    IF samples = <<>> THEN peak
    ELSE LET current == Head(samples)
             next == IF current.activeUsers + current.messagesPerHour
                            > peak.userCount + peak.messageCount
                     THEN [timestamp |-> current.timestamp,
                           userCount |-> current.activeUsers,
                           messageCount |-> current.messagesPerHour]
                     ELSE peak
         IN peakActivity(Tail(samples), next)

\* The sum of activeUsers over the samples of a period.
RECURSIVE sumActiveUsers(_)
sumActiveUsers(samples) ==
    IF samples = <<>> THEN 0 ELSE Head(samples).activeUsers + sumActiveUsers(Tail(samples))

\* RoomAnalyticsManager.generateRoomInsights at time t: the numbers of the
\* summary and of the content analysis that are sums and counts.  The
\* engagement score and the top contributors are computed from the period's
\* activities, the trend and the time distribution from the period's samples.
generateRoomInsights(R, A, B, r, period, t) ==
    IF r \notin DOMAIN R.rooms
    THEN [found |-> FALSE, insights |-> <<>>]
    ELSE
    LET periodStart == getPeriodStart(t, period)
        metricsHistory == IF r \in DOMAIN B THEN B[r] ELSE <<>>
        periodMetrics == SelectSeq(metricsHistory, LAMBDA m : m.timestamp >= periodStart)
        periodActivities == {k \in roomActivities(A, r) : A[k].lastActivity >= periodStart}
    IN [found |-> TRUE,
        insights |->
           [period |-> period,
            totalMessages |-> sumField(A, periodActivities, "messagesCount"),
            uniqueUsers |-> Cardinality(periodActivities),
            averageUsersOnline |-> Average(sumActiveUsers(periodMetrics), Len(periodMetrics)),
            peakActivity |-> peakActivity(periodMetrics,
                                          [timestamp |-> t, userCount |-> 0, messageCount |-> 0]),
            fileShares |-> sumField(A, periodActivities, "fileUploads"),
            reactions |-> sumField(A, periodActivities, "reactionsGiven")]]

\* A JavaScript number: NaN, Infinity, or the fraction n / d of two integers.
NaN == [kind |-> "nan", n |-> 0, d |-> 1]
Infinity == [kind |-> "inf", n |-> 0, d |-> 1]
Num(n, d) == [kind |-> "num", n |-> n, d |-> d]

\* a / b for integers a >= 0 and b >= 0.
jsDivide(a, b) ==
    IF b = 0 THEN (IF a = 0 THEN NaN ELSE Infinity) ELSE Num(a, b)

\* x * k for an integer k > 0.
jsTimes(x, k) == IF x.kind = "num" THEN Num(x.n * k, x.d) ELSE x

\* x + y for x, y that are not negative.
jsPlus(x, y) ==
    IF x.kind = "nan" \/ y.kind = "nan" THEN NaN
    ELSE IF x.kind = "inf" \/ y.kind = "inf" THEN Infinity
    ELSE Num(x.n * y.d + y.n * x.d, x.d * y.d)

\* Math.min(100, x)
mathMin100(x) ==
    IF x.kind = "nan" THEN NaN
    ELSE IF x.kind = "inf" THEN Num(100, 1)
    ELSE IF x.n >= 100 * x.d THEN Num(100, 1) ELSE x

\* Math.round(x) for a finite x that is not negative.
mathRound(x) == Num((2 * x.n + x.d) \div (2 * x.d), 1)

\* The activities of room r with an event since the start of the period.
activitiesInPeriod(A, r, period, t) ==
    {k \in roomActivities(A, r) : A[k].lastActivity >= getPeriodStart(t, period)}

\* RoomAnalyticsManager.calculateEngagementScore
calculateEngagementScore(A, keys, room) ==
    IF keys = {} THEN Num(0, 1)
    ELSE
    LET totalMessages == sumField(A, keys, "messagesCount")
        averageMessagesPerUser == jsDivide(totalMessages, Cardinality(keys))
        participationRate == jsDivide(Cardinality(keys), Cardinality(room.memberIds))
    IN mathRound(mathMin100(jsPlus(jsTimes(averageMessagesPerUser, 10),
                                   jsTimes(participationRate, 50))))

GrowthScore == 75

\* RoomAnalyticsManager.generateRoomHealthMetrics: the four health scores.
generateRoomHealthMetrics(R, A, B, r, t) ==
    IF r \notin DOMAIN R.rooms
    THEN [found |-> FALSE, health |-> <<>>]
    ELSE
    LET insights == generateRoomInsights(R, A, B, r, "day", t).insights
        room == R.rooms[r]
        engagementScore ==
            calculateEngagementScore(A, activitiesInPeriod(A, r, "day", t), room)
        reactionsLeft == 100 - insights.reactions * 10
    IN [found |-> TRUE,
        health |->
           [engagement |-> mathMin100(engagementScore),
            participation |->
                mathMin100(jsTimes(jsDivide(insights.uniqueUsers,
                                            Cardinality(room.memberIds)), 100)),
            moderation |-> Num(IF reactionsLeft > 0 THEN reactionsLeft ELSE 0, 1),
            growth |-> Num(GrowthScore, 1)]]

\* ------------------------------------------------------------ authorization

\* WebSocketAuthorization.PERMISSIONS, for the permissions the handlers ask.
PermissionRoles(permission) ==
    CASE permission = "class:join" -> {"STUDENT", "TEACHER", "ADMIN"}
      [] permission = "class:create" -> {"TEACHER", "ADMIN"}
      [] permission = "class:manage" -> {"TEACHER", "ADMIN"}
      [] OTHER -> {}

\* WebSocketAuthorization.hasPermission(socket, permission, {classId}); an open
\* socket has its session, and no session permission is ever stored as false.
hasPermission(s, cids, permission, classId) ==
    /\ UserRole(SocketUser(s)) \in PermissionRoles(permission)
    /\ classId # NoClass => classId \in cids

\* ------------------------------------------------------------ what `last` holds
NoStatus == [isMuted |-> FALSE, hasMuteExpiry |-> FALSE, muteExpiry |-> 0,
             isBanned |-> FALSE, hasBanExpiry |-> FALSE, banExpiry |-> 0, warnings |-> 0]

NoLast == [op |-> "init", s |-> NoSocket, u |-> NoUser, r |-> NoRoomId, kind |-> "-",
           target |-> NoUser, ok |-> FALSE, reason |-> "-", bcast |-> <<>>,
           actorRank |-> "-", targetRank |-> "-", wasLast |-> FALSE, tracked |-> {},
           inRooms |-> {}, dur |-> NoDuration, status |-> NoStatus, prior |-> -1,
           result |-> <<>>]

\* What `last` holds after a request the handler refused.
Refused(op, s, reason) ==
    [NoLast EXCEPT !.op = op, !.s = s, !.u = SocketUser(s), !.reason = reason]

\* The rank of u in a room: owner > moderator > member.
RankIn(room, u) ==
    IF room.ownerId = u THEN "owner"
    ELSE IF u \in room.moderatorIds THEN "moderator" ELSE "member"

Commit(R) ==
    /\ rooms' = R.rooms
    /\ roomMembers' = R.members
    /\ userRooms' = R.index
    /\ sockRooms' = R.adapter
    /\ overrideJoined' = R.override

\* The counters stay within the model's cap.
WithinCaps(R) == \A r \in DOMAIN R.rooms : R.rooms[r].activeMembers <= MaxActive

\* No call of joinRoom is suspended for the socket.
NoRoom == [name |-> "-"]
NotJoining == [pc |-> "idle", r |-> NoRoomId, room |-> NoRoom]

\* ------------------------------------------------------------------- Init

\* The class memberships RoomManager.initializeRooms may find in the database.
InitialMemberships == {{"s1"}, {"t1", "s1"}}

\* RoomManager.initializeRooms: the room of one active class.
loadedClassRoom(c, teacherId, memberships) ==
    [name |-> "class", roomType |-> "class", classId |-> c, ownerId |-> teacherId,
     moderatorIds |-> {teacherId}, memberIds |-> memberships, isPublic |-> FALSE,
     maxMembers |-> ClassRoomMaxMembers, activeMembers |-> 0,
     settings |-> getDefaultRoomSettings, lastActivity |-> 0]

\* The state after construction, with the class rooms initializeRooms loaded.
Boot(loaded) ==
    /\ rooms = loaded
    /\ roomMembers = [r \in DOMAIN loaded |-> EmptyMap]
    /\ overrideJoined = [r \in DOMAIN loaded |-> {}]
    /\ userRooms = [u \in Users |-> {}]
    /\ created = 0
    /\ sockRooms = [s \in Sockets |-> {}]
    /\ conn = [s \in Sockets |-> "new"]
    /\ ioSockets = <<>>
    /\ sockClassIds = [s \in Sockets |-> {}]
    /\ userConnections = [u \in Users |-> {}]
    /\ classMembers = [c \in ClassIds |-> {}]
    /\ mutedUsers = EmptyMap
    /\ bannedUsers = EmptyMap
    /\ userWarnings = EmptyMap
    /\ now = 0
    /\ nowMs = 0
    /\ redisUp = TRUE
    /\ userCooldowns = EmptyMap
    /\ acceptedAt = EmptyMap
    /\ userActivities = EmptyMap
    /\ metricsBuffer = EmptyMap
    /\ activityLog = EmptyMap
    /\ sessions = EmptyMap
    /\ userSessions = [u \in Users |-> {}]
    /\ joining = [s \in Sockets |-> NotJoining]
    /\ limits = EmptyMap
    /\ allowedLog = EmptyMap
    /\ last = NoLast

\* No active class in the database.
Init == Boot(EmptyMap)

\* One active class in the database, taught by t1.
InitClass ==
    \E m \in InitialMemberships :
        Boot([r \in {ClassRoomId(1)} |-> loadedClassRoom(1, "t1", m)])

\* ------------------------------------------------------- ConnectionManager

\* ConnectionManager.autoJoinUserRooms: joinRoom for each room of the snapshot,
\* tracking the class member after each join that succeeded.
RECURSIVE autoJoinUserRooms(_, _, _, _)
autoJoinUserRooms(R, C, s, todo) ==
    IF todo = {} THEN [reg |-> R, classMembers |-> C, bcast |-> <<>>]
    ELSE
    LET r == CHOOSE x \in todo : TRUE
        room == R.rooms[r]
        j == joinRoom(R, s, r, "member", FALSE)
        C1 == IF j.success /\ room.roomType = "class" /\ room.classId # NoClass
                 /\ room.classId \in DOMAIN C
              THEN [C EXCEPT ![room.classId] = @ \cup {SocketUser(s)}] ELSE C
        rest == autoJoinUserRooms(j.reg, C1, s, todo \ {r})
    IN [reg |-> rest.reg, classMembers |-> rest.classMembers, bcast |-> j.bcast \o rest.bcast]

\* The connection handler: ConnectionManager.handleConnection.
Connect(s, cids) ==
    /\ conn[s] = "new"
    /\ LET u == SocketUser(s)
           a == autoJoinUserRooms(Reg, classMembers, s, getUserRooms(Reg, u))
       IN /\ WithinCaps(a.reg)
          /\ Commit(a.reg)
          /\ classMembers' = a.classMembers
          /\ last' = [NoLast EXCEPT !.op = "connect", !.s = s, !.u = u, !.ok = TRUE,
                                    !.bcast = a.bcast]
    /\ conn' = [conn EXCEPT ![s] = "open"]
    /\ ioSockets' = Append(ioSockets, s)
    /\ sockClassIds' = [sockClassIds EXCEPT ![s] = cids]
    /\ userConnections' = [userConnections EXCEPT ![SocketUser(s)] = @ \cup {s}]
    /\ UNCHANGED <<created, modVars, now, envVars>>

\* removeUserConnection dropping the actor's whole entry at any close.
removeUserConnectionEntry(connections, u, s) == [connections EXCEPT ![u] = {}]

\* ConnectionManager.removeUserConnection: an entry whose set became empty is
\* deleted, which the model holds as the empty set.
removeUserConnection(connections, u, s) == [connections EXCEPT ![u] = @ \ {s}]

\* ConnectionManager.getUserConnectionCount
getUserConnectionCount(connections, u) == Cardinality(connections[u])

\* ConnectionManager.isUserConnected
isUserConnected(connections, u) == connections[u] # {}

\* The test of handleDisconnection: the actor has no connection left.
noConnectionLeft(connections, u) == connections[u] = {}

\* ConnectionManager.handleDisconnection, over the socket's class list: the
\* classes whose tracking drops the actor and that get the offline broadcast.
offlineClasses(C, connections, u, cids) ==
    {c \in cids : u \in C[c] /\ noConnectionLeft(connections, u)}

\* ConnectionManager.broadcastUserOffline
broadcastUserOffline(adapter, c) ==
    [event |-> "user:left_class", room |-> ClassRoomId(c),
     to |-> {k \in Sockets : ClassRoomId(c) \in adapter[k]}]

RECURSIVE offlineBroadcasts(_, _)
offlineBroadcasts(adapter, cs) ==
    IF cs = {} THEN <<>>
    ELSE LET c == CHOOSE x \in cs : TRUE
         IN <<broadcastUserOffline(adapter, c)>> \o offlineBroadcasts(adapter, cs \ {c})

\* The disconnect handler: socket.io has taken the socket out of its rooms and
\* of io.sockets.sockets before ConnectionManager.handleDisconnection runs.
Disconnect(s) ==
    /\ conn[s] = "open"
    /\ LET u == SocketUser(s)
           connections1 == removeUserConnection(userConnections, u, s)
           adapter1 == [sockRooms EXCEPT ![s] = {}]
           off == offlineClasses(classMembers, connections1, u, sockClassIds[s])
       IN /\ userConnections' = connections1
          /\ sockRooms' = adapter1
          /\ classMembers' = [c \in ClassIds |->
                                IF c \in off THEN classMembers[c] \ {u} ELSE classMembers[c]]
          /\ last' = [NoLast EXCEPT !.op = "disconnect", !.s = s, !.u = u, !.ok = TRUE,
                                    !.wasLast = (connections1[u] = {}),
                                    !.tracked = {c \in ClassIds : u \in classMembers[c]},
                                    !.inRooms = sockRooms[s],
                                    !.bcast = offlineBroadcasts(adapter1, off)]
    /\ conn' = [conn EXCEPT ![s] = "closed"]
    /\ ioSockets' = RemoveFromSeq(ioSockets, s)
    /\ UNCHANGED <<rooms, roomMembers, userRooms, created, overrideJoined, sockClassIds,
                   modVars, now, envVars>>

\* ConnectionManager.trackClassMember
trackClassMember(C, c, u) == [C EXCEPT ![c] = @ \cup {u}]

\* The join:class handler: ConnectionManager.handleJoinClass.
JoinClass(s, c) ==
    /\ conn[s] = "open"
    /\ LET u == SocketUser(s)
           r == ClassRoomId(c)
           h == hasRoomPermission(Reg, mutedUsers, bannedUsers, now, s, r, "class:join", NoUser)
           j == joinRoom(Reg, s, r, "member", TRUE)
       IN /\ mutedUsers' = h.muted
          /\ bannedUsers' = h.banned
          /\ IF ~h.res.allowed
             THEN /\ last' = Refused("join:class", s, h.res.reason)
                  /\ UNCHANGED <<regVars, classMembers>>
             ELSE /\ WithinCaps(j.reg)
                  /\ Commit(j.reg)
                  /\ classMembers' = IF j.success THEN trackClassMember(classMembers, c, u)
                                     ELSE classMembers
                  /\ last' = [NoLast EXCEPT !.op = "join:class", !.s = s, !.u = u, !.r = r,
                                            !.ok = j.success, !.reason = j.message,
                                            !.bcast = j.bcast]
    /\ UNCHANGED <<created, conn, ioSockets, sockClassIds, userConnections, userWarnings,
                   now, envVars>>

\* The leave:class handler: ConnectionManager.handleLeaveClass.
LeaveClass(s, c) ==
    /\ conn[s] = "open"
    /\ LET u == SocketUser(s)
           r == ClassRoomId(c)
           l == leaveRoom(Reg, s, r)
       IN /\ Commit(l.reg)
          /\ classMembers' = IF l.success THEN [classMembers EXCEPT ![c] = @ \ {u}]
                             ELSE classMembers
          /\ last' = [NoLast EXCEPT !.op = "leave:class", !.s = s, !.u = u, !.r = r,
                                    !.ok = l.success, !.reason = l.message, !.bcast = l.bcast]
    /\ UNCHANGED <<created, conn, ioSockets, sockClassIds, userConnections, modVars, now,
                   envVars>>

\* -------------------------------------------------------------- RoomHandler

\* String.prototype.trim, over the names the requests carry.
trim(name) == IF name = " " THEN "" ELSE name

\* The validation of handleCreateRoom: the name is missing or blank.
nameMissing(name) == name = "" \/ Len(trim(name)) = 0

\* The room:create handler: RoomHandler.handleCreateRoom.
RoomCreate(s, name, kind, isPublic, maxMembers) ==
    /\ conn[s] = "open"
    /\ LET u == SocketUser(s)
           id == NewRoomId(created + 1)
           c == createRoom(Reg, id, u, name, kind[1], kind[2], isPublic, maxMembers)
           j == joinRoom(c.reg, s, id, "member", FALSE)
       IN IF ~hasPermission(s, sockClassIds[s], "class:create", NoClass) /\ kind[1] = "class"
          THEN /\ last' = Refused("room:create", s, "Permission denied: Cannot create class rooms")
               /\ UNCHANGED <<regVars>>
          ELSE IF nameMissing(name)
          THEN /\ last' = Refused("room:create", s, "Room name is required")
               /\ UNCHANGED <<regVars>>
          ELSE IF ~c.returned
          THEN /\ created < MaxCreated
               /\ Commit(c.reg)
               /\ created' = created + 1
               /\ last' = Refused("room:create", s, "Failed to create room")
          ELSE /\ created < MaxCreated
               /\ Commit(j.reg)
               /\ created' = created + 1
               /\ last' = [NoLast EXCEPT !.op = "room:create", !.s = s, !.u = u, !.r = id,
                               !.ok = TRUE, !.reason = "Room created successfully",
                               !.bcast = j.bcast]
    /\ UNCHANGED <<connVars, modVars, now, envVars>>

\* The room:join handler: RoomHandler.handleJoinRoom.
RoomJoin(s, r) ==
    /\ conn[s] = "open"
    /\ LET u == SocketUser(s)
           j == joinRoom(Reg, s, r, "member", TRUE)
       IN IF r \notin DOMAIN rooms
          THEN /\ last' = Refused("room:join", s, "Room not found")
               /\ UNCHANGED <<regVars>>
          ELSE IF /\ rooms[r].roomType = "class"
                  /\ rooms[r].classId # NoClass
                  /\ ~hasPermission(s, sockClassIds[s], "class:join", rooms[r].classId)
          THEN /\ last' = Refused("room:join", s, "Permission denied: Cannot join this class room")
               /\ UNCHANGED <<regVars>>
          ELSE /\ WithinCaps(j.reg)
               /\ Commit(j.reg)
               /\ UNCHANGED created
               /\ last' = [NoLast EXCEPT !.op = "room:join", !.s = s, !.u = u, !.r = r,
                               !.ok = j.success, !.reason = j.message, !.bcast = j.bcast,
                               !.kind = IF u \in rooms[r].memberIds THEN "member" ELSE "new",
                               !.actorRank = RankIn(rooms[r], u)]
    /\ UNCHANGED <<connVars, modVars, now, envVars>>

\* The room:leave handler: RoomHandler.handleLeaveRoom.
RoomLeave(s, r) ==
    /\ conn[s] = "open"
    /\ LET u == SocketUser(s)
           l == leaveRoom(Reg, s, r)
       IN /\ Commit(l.reg)
          /\ last' = [NoLast EXCEPT !.op = "room:leave", !.s = s, !.u = u, !.r = r,
                          !.ok = l.success, !.reason = l.message, !.bcast = l.bcast,
                          !.kind = IF r \in DOMAIN rooms /\ u \in rooms[r].memberIds
                                   THEN "member" ELSE "new",
                          !.actorRank = IF r \in DOMAIN rooms THEN RankIn(rooms[r], u) ELSE "-"]
    /\ UNCHANGED <<created, connVars, modVars, now, envVars>>

\* RoomManager.updateRoomSettings: the room with the merged settings, and the
\* 'class:updated' broadcast.
updateRoomSettings(R, r, partial) ==
    LET R1 == [R EXCEPT !.rooms[r].settings = mergeSettings(@, partial),
                        !.rooms[r].lastActivity = R.clock]
    IN IF storeRoomInRedis(R.redisUp)
       THEN [reg |-> R1, success |-> FALSE, bcast |-> <<>>]
       ELSE [reg |-> R1, success |-> TRUE,
             bcast |-> <<broadcastRoomEvent(R, r, "class:updated", NoSocket)>>]

\* The test of handleUpdateRoom: who may manage the room.
canManage(s, cids, room) ==
    \/ room.ownerId = SocketUser(s)
    \/ SocketUser(s) \in room.moderatorIds
    \/ IF room.classId # NoClass THEN hasPermission(s, cids, "class:manage", room.classId)
       ELSE FALSE

\* The room:update handler: RoomHandler.handleUpdateRoom.
RoomUpdate(s, r, settings, maxMembers) ==
    /\ conn[s] = "open"
    /\ LET u == SocketUser(s) IN
       IF r \notin DOMAIN rooms
       THEN /\ last' = Refused("room:update", s, "Room not found")
            /\ UNCHANGED regVars
       ELSE IF ~canManage(s, sockClassIds[s], rooms[r])
       THEN /\ last' = Refused("room:update", s, "Permission denied: Cannot manage this room")
            /\ UNCHANGED regVars
       ELSE LET us == IF settings # EmptyMap THEN updateRoomSettings(Reg, r, settings)
                      ELSE [reg |-> Reg, success |-> TRUE, bcast |-> <<>>]
                R2 == IF maxMembers # 0
                      THEN [us.reg EXCEPT !.rooms[r].maxMembers = maxMembers]
                      ELSE us.reg
            IN IF ~us.success
               THEN /\ Commit(us.reg)
                    /\ UNCHANGED created
                    /\ last' = Refused("room:update", s, "Failed to update room settings")
               ELSE /\ Commit(R2)
                    /\ UNCHANGED created
                    /\ last' = [NoLast EXCEPT !.op = "room:update", !.s = s, !.u = u, !.r = r,
                                    !.ok = TRUE, !.reason = "Room updated successfully",
                                    !.bcast = us.bcast, !.dur = maxMembers,
                                    !.actorRank = RankIn(rooms[r], u)]
    /\ UNCHANGED <<connVars, modVars, now, envVars>>

\* The test of handleModerationAction: who may moderate the room.
canModerate(s, cids, room) ==
    \/ room.ownerId = SocketUser(s)
    \/ SocketUser(s) \in room.moderatorIds
    \/ hasPermission(s, cids, "room:moderate", NoClass)

\* The target socket of handleModerationAction: the first connected socket of
\* the target user, in connection order; NoSocket when there is none.
targetSocketOf(order, target) ==
    LET mine == SelectSeq(order, LAMBDA k : SocketUser(k) = target)
    IN IF Len(mine) = 0 THEN NoSocket ELSE Head(mine)

\* The switch of handleModerationAction: the registry after the action, whether
\* it reported success, and its message.
moderationSwitch(R, r, action, target, targetSocket) ==
    CASE action = "kick" ->
            IF targetSocket # NoSocket
            THEN [reg |-> leaveRoom(R, targetSocket, r).reg, success |-> TRUE,
                  message |-> "User kicked from room",
                  bcast |-> leaveRoom(R, targetSocket, r).bcast]
            ELSE [reg |-> R, success |-> FALSE, message |-> "", bcast |-> <<>>]
      [] action = "mute" ->
            [reg |-> R, success |-> TRUE, message |-> "User muted", bcast |-> <<>>]
      [] action = "unmute" ->
            [reg |-> R, success |-> TRUE, message |-> "User unmuted", bcast |-> <<>>]
      [] action = "ban" ->
            IF targetSocket # NoSocket
            THEN [reg |-> leaveRoom(R, targetSocket, r).reg, success |-> TRUE,
                  message |-> "User banned from room",
                  bcast |-> leaveRoom(R, targetSocket, r).bcast]
            ELSE [reg |-> R, success |-> TRUE, message |-> "User banned from room",
                  bcast |-> <<>>]
      [] action = "unban" ->
            [reg |-> R, success |-> TRUE, message |-> "User unbanned", bcast |-> <<>>]
      [] action = "promote" ->
            [reg |-> [R EXCEPT !.rooms[r].moderatorIds = @ \cup {target}], success |-> TRUE,
             message |-> "User promoted to moderator", bcast |-> <<>>]
      [] action = "demote" ->
            [reg |-> [R EXCEPT !.rooms[r].moderatorIds = @ \ {target}], success |-> TRUE,
             message |-> "User demoted from moderator", bcast |-> <<>>]

\* The room:moderate handler: RoomHandler.handleModerationAction.
RoomModerate(s, r, action, target) ==
    /\ conn[s] = "open"
    /\ LET u == SocketUser(s)
           base == [NoLast EXCEPT !.op = "room:moderate", !.s = s, !.u = u, !.r = r,
                                  !.kind = action, !.target = target]
       IN
       IF r \notin DOMAIN rooms
       THEN /\ last' = Refused("room:moderate", s, "Room not found")
            /\ UNCHANGED regVars
       ELSE
       LET room == rooms[r]
           ranked == [base EXCEPT !.actorRank = RankIn(room, u),
                                  !.targetRank = RankIn(room, target)]
       IN
       IF ~canModerate(s, sockClassIds[s], room)
       THEN /\ last' = Refused("room:moderate", s, "Permission denied: Cannot moderate this room")
            /\ UNCHANGED regVars
       ELSE IF target = u /\ room.ownerId # u
       THEN /\ last' = Refused("room:moderate", s,
                                    "Cannot perform moderation actions on yourself")
            /\ UNCHANGED regVars
       ELSE IF action \notin {"kick", "mute", "unmute", "ban", "unban", "promote", "demote"}
       THEN /\ last' = Refused("room:moderate", s, "Unknown moderation action")
            /\ UNCHANGED regVars
       ELSE LET m == moderationSwitch(Reg, r, action, target, targetSocketOf(ioSockets, target))
            IN /\ Commit(m.reg)
               /\ UNCHANGED created
               /\ last' = [ranked EXCEPT
                               !.ok = m.success, !.reason = m.message,
                               !.bcast = m.bcast \o
                                   <<broadcastRoomEvent(m.reg, r, "room:moderation_action",
                                                        NoSocket)>>]
    /\ UNCHANGED <<connVars, modVars, now, envVars>>

\* ------------------------------------------- the room lifecycle specification

\* The connections of the room lifecycle: one of s1 and one of t1.
RoomSockets == {"k1", "k3"}
RoomUsers == {SocketUser(s) : s \in RoomSockets}

\* The ids createRoom can generate; an id names no room until it is generated.
CreatedRoomIds == {NewRoomId(n) : n \in 1..MaxCreated}

\* The room:create requests: one without a name, and the named ones.
CreateRequests ==
    [name : {"", " "}, isPublic : {FALSE}, maxMembers : {0}] \cup
    [name : {"A"}, isPublic : BOOLEAN, maxMembers : 0..MaxCap]

\* The room:update requests: a new maxMembers, or new settings.
UpdateRequests ==
    {[settings |-> EmptyMap, maxMembers |-> m] : m \in 1..MaxCap} \cup
    {[settings |-> [allowMessaging |-> FALSE], maxMembers |-> 0]}

Next ==
    \/ \E s \in RoomSockets : Connect(s, {})
    \/ \E s \in RoomSockets : Disconnect(s)
    \/ \E s \in RoomSockets, q \in CreateRequests :
          RoomCreate(s, q.name, <<"group", NoClass>>, q.isPublic, q.maxMembers)
    \/ \E s \in RoomSockets, r \in CreatedRoomIds : RoomJoin(s, r)
    \/ \E s \in RoomSockets, r \in CreatedRoomIds : RoomLeave(s, r)
    \/ \E s \in RoomSockets, r \in CreatedRoomIds, q \in UpdateRequests :
          RoomUpdate(s, r, q.settings, q.maxMembers)
    \/ \E s \in RoomSockets, r \in CreatedRoomIds, action \in {"kick", "ban", "promote", "demote"},
          target \in RoomUsers : RoomModerate(s, r, action, target)

Spec == Init /\ [][Next]_vars

\* C1: in every reachable state a room with maxMembers = N has at most N
\* members, not counting the members whose join was admitted over the limit
\* because the joining actor was a moderator of the room (the owner is one).
C1_CapacityInvariant ==
    \A r \in DOMAIN rooms :
        Cardinality(rooms[r].memberIds \ overrideJoined[r]) <= rooms[r].maxMembers

\* A join was refused at capacity: the limit is enforced on the join path.
C1_Witness ==
    /\ last.op = "room:join"
    /\ ~last.ok
    /\ last.reason = "Room is at maximum capacity"

\* C33: in every reachable state a room's activeMembers counter is at most the
\* size of its member set, joins repeated by a member and leaves by an actor
\* who is not a member included.
C33_ActiveWithinMembers ==
    \A r \in DOMAIN rooms : rooms[r].activeMembers <= Cardinality(rooms[r].memberIds)

\* C34: a room r is among the rooms the registry returns for an actor u, which
\* it reads from its per-actor index, exactly when u is in the member set of r;
\* the rooms loaded at startup are no exception.
C34_IndexMatchesMembers ==
    \A u \in Users : \A r \in DOMAIN rooms :
        (r \in getUserRooms(Reg, u)) <=> (u \in rooms[r].memberIds)

\* C36: every connection joined to the broadcast channel of a room belongs to
\* an actor in the member set of that room, so that after a leave or a deletion
\* no connection of the removed actor, on any device, is left in the channel.
C36_ChannelWithinMembers ==
    \A s \in Sockets : \A r \in sockRooms[s] :
        r \in DOMAIN rooms /\ SocketUser(s) \in rooms[r].memberIds

\* C2: when the same actor joins the same room twice in succession, the first
\* join succeeding, the second join emits no "member joined" broadcast and the
\* room keeps exactly one membership entry for the actor.
C2_IdempotentJoin ==
    [][(/\ last.op = "room:join" /\ last.ok
        /\ last'.op = "room:join" /\ last'.ok
        /\ last'.u = last.u /\ last'.r = last.r)
       => /\ last'.bcast = <<>>
          /\ last'.u \in DOMAIN roomMembers'[last'.r]
          /\ last'.u \in rooms'[last'.r].memberIds]_vars

\* C3: an actor whose rank in the room is moderator never successfully applies
\* a moderation action to the room's owner or to another moderator.
C3_RankInvariant ==
    (/\ last.op = "room:moderate"
     /\ last.ok
     /\ last.actorRank = "moderator"
     /\ UserRole(last.u) # "ADMIN"
     /\ last.target # last.u)
    => last.targetRank = "member"

\* C4: while a room exists its owner is in its member set.
C4_OwnerIsMember ==
    \A r \in DOMAIN rooms : rooms[r].ownerId \in rooms[r].memberIds

\* C11: no moderation action an actor applies to themselves through
\* room:moderate is reported as successful, whatever the actor's rank.
C11_NoSelfModeration ==
    (last.op = "room:moderate" /\ last.ok) => last.target # last.u

\* C12: a room's settings change only in a room:update whose requesting actor
\* is the room's owner or a global admin.
C12_SettingsOnlyByOwner ==
    [][\A r \in DOMAIN rooms \cap DOMAIN rooms' :
          rooms'[r].settings # rooms[r].settings
          => /\ last'.op = "room:update"
             /\ last'.r = r
             /\ \/ rooms[r].ownerId = last'.u
                \/ UserRole(last'.u) = "ADMIN"]_vars

\* C13: a room:join is refused as over capacity only when the joining actor is
\* neither the room's owner nor one of its moderators.
C13_OverrideAlwaysJoins ==
    (last.op = "room:join" /\ last.reason = "Room is at maximum capacity")
    => last.actorRank = "member"

\* C15: a room:leave by an actor who is not a member of the room leaves the
\* member set, the activeMembers counter and the actor's room index as they
\* were, emits no "member left" broadcast, and answers with another message
\* than a leave that removed a membership.
C15_LeaveByNonMember ==
    [][(last'.op = "room:leave" /\ last'.r \in DOMAIN rooms /\ last'.kind = "new")
       => /\ last'.ok
          /\ rooms'[last'.r].memberIds = rooms[last'.r].memberIds
          /\ rooms'[last'.r].activeMembers = rooms[last'.r].activeMembers
          /\ userRooms' = userRooms
          /\ last'.bcast = <<>>
          /\ last'.reason # "Successfully left room"]_vars

\* -------------------------------------------------- the access specification

\* The connections of the access specification: one of s1 and one of t1.
AccessSockets == {"k1", "k3"}

\* The room:create requests of the access specification: group rooms, and
\* class rooms carrying the id of class 1.
AccessCreateRequests ==
    [kind : {<<"group", NoClass>>, <<"class", 1>>}, isPublic : BOOLEAN]

NextAccess ==
    \/ \E s \in AccessSockets, cids \in SUBSET ClassIds : Connect(s, cids)
    \/ \E s \in AccessSockets, q \in AccessCreateRequests :
          RoomCreate(s, "A", q.kind, q.isPublic, 0)
    \/ \E s \in AccessSockets, r \in CreatedRoomIds : RoomJoin(s, r)
    \/ \E s \in AccessSockets, r \in CreatedRoomIds : RoomLeave(s, r)

SpecAccess == Init /\ [][NextAccess]_vars

\* C14: a join that asks for the access check, by an actor who is not a member
\* of a room that is not public, is refused with "Access denied to this room",
\* changes nothing in the registry and emits no broadcast.
C14_AccessDenied ==
    [][(/\ last'.op = "room:join"
        /\ last'.kind = "new"
        /\ last'.r \in DOMAIN rooms
        /\ ~rooms[last'.r].isPublic)
       => /\ ~last'.ok
          /\ last'.reason = "Access denied to this room"
          /\ last'.bcast = <<>>
          /\ UNCHANGED regVars]_vars

\* ------------------------------------------------ the presence specification

\* The connections of the presence specification: two of s1 and one of t1.
PresenceSockets == {"k1", "k2", "k3"}

NextPresence ==
    \/ \E s \in PresenceSockets, cids \in SUBSET ClassIds : Connect(s, cids)
    \/ \E s \in PresenceSockets : Disconnect(s)
    \/ \E s \in PresenceSockets, c \in ClassIds : RoomJoin(s, ClassRoomId(c))
    \/ \E s \in PresenceSockets, c \in ClassIds : RoomLeave(s, ClassRoomId(c))
    \/ \E s \in PresenceSockets, c \in ClassIds : JoinClass(s, c)
    \/ \E s \in PresenceSockets, c \in ClassIds : LeaveClass(s, c)

SpecPresence == InitClass /\ [][NextPresence]_vars

\* The offline broadcasts a close emitted to room r.
offlineCount(r) == Len(SelectSeq(last.bcast, LAMBDA b : b.room = r))

\* C5: closing a connection emits the offline broadcast to a room the closing
\* connection was in if and only if it was the actor's last live connection,
\* and then exactly one broadcast per room.
C5_OfflineBroadcast ==
    last.op = "disconnect" =>
        \A r \in last.inRooms : offlineCount(r) = IF last.wasLast THEN 1 ELSE 0

\* The connections of an actor that were opened and are not closed.
OpenSocketsOf(u) == {s \in Sockets : conn[s] = "open" /\ SocketUser(s) = u}

\* C21: after every open and close the connection count reported for an actor
\* is the number of the actor's connections opened and not yet closed,
\* isUserConnected holds exactly when that count is positive, and an open by
\* an actor who already has a connection succeeds and adds one to the count.
C21_ConnectionCount ==
    [][/\ \A u \in Users :
             /\ getUserConnectionCount(userConnections', u) = Cardinality(OpenSocketsOf(u)')
             /\ isUserConnected(userConnections', u) <=>
                    getUserConnectionCount(userConnections', u) > 0
       /\ last'.op = "connect" =>
             /\ last'.ok
             /\ getUserConnectionCount(userConnections', last'.u) =
                    getUserConnectionCount(userConnections, last'.u) + 1]_vars

\* An actor with two open connections closed one of them: the count is one and
\* the actor is still reported as connected.
C21_Witness ==
    /\ last.op = "disconnect"
    /\ ~last.wasLast
    /\ Cardinality(OpenSocketsOf(last.u)) = 1
    /\ getUserConnectionCount(userConnections, last.u) = 1
    /\ isUserConnected(userConnections, last.u)

\* ---------------------------------------------- the moderation specification

\* A call of RoomPermissionManager.applyModerationAction.
ApplyModeration(type, r, target, duration) ==
    /\ type = "warn" => getUserWarnings(userWarnings, r, target) < MaxWarn
    /\ LET a == applyModerationAction(Reg, Store, now, type, r, target, duration)
       IN /\ mutedUsers' = a.store.muted
          /\ bannedUsers' = a.store.banned
          /\ userWarnings' = a.store.warnings
          /\ last' = IF a.success
                     THEN [NoLast EXCEPT !.op = "moderation", !.r = r, !.kind = type,
                                         !.target = target, !.dur = duration, !.ok = TRUE,
                                         !.reason = a.message]
                     ELSE [NoLast EXCEPT !.op = "moderation", !.reason = a.message]
    /\ UNCHANGED <<regVars, connVars, now, envVars>>

\* A call of RoomPermissionManager.hasRoomPermission for an action of the
\* socket's user in room r.
CheckPermission(s, r, action) ==
    /\ conn[s] = "open"
    /\ LET h == hasRoomPermission(Reg, mutedUsers, bannedUsers, now, s, r, action, NoUser)
       IN /\ mutedUsers' = h.muted
          /\ bannedUsers' = h.banned
          /\ last' = [NoLast EXCEPT !.op = "check", !.s = s, !.u = SocketUser(s), !.r = r,
                                    !.kind = action, !.ok = h.res.allowed,
                                    !.reason = h.res.reason,
                                    !.status = getUserModerationStatus(
                                                   Store, now, r, SocketUser(s)).status]
    /\ UNCHANGED <<regVars, connVars, userWarnings, now, envVars>>

\* A call of RoomPermissionManager.getUserModerationStatus.
GetStatus(r, u) ==
    /\ LET g == getUserModerationStatus(Store, now, r, u)
       IN /\ mutedUsers' = g.store.muted
          /\ bannedUsers' = g.store.banned
          /\ last' = [NoLast EXCEPT !.op = "status", !.r = r, !.target = u, !.ok = TRUE,
                                    !.status = g.status]
    /\ UNCHANGED <<regVars, connVars, userWarnings, now, envVars>>

\* The sweep the cleanup interval runs every minute.
Cleanup ==
    /\ mutedUsers' = cleanupExpiredActions(mutedUsers, now)
    /\ bannedUsers' = cleanupExpiredActions(bannedUsers, now)
    /\ last' = [NoLast EXCEPT !.op = "cleanup"]
    /\ UNCHANGED <<regVars, connVars, userWarnings, now, envVars>>

\* The clock advances by one step of the model's time.
TickMinutes == WarnMuteMinutes

Tick ==
    /\ now + TickMinutes <= MaxTime
    /\ now' = now + TickMinutes
    /\ last' = [NoLast EXCEPT !.op = "tick"]
    /\ UNCHANGED <<regVars, connVars, modVars, envVars>>

\* The connections of the mute specification: one of s1 and one of t1.
MuteSockets == {"k1", "k3"}

\* The moderation requests of the mute specification: mutes, unmutes and
\* warnings against s1, and a mute against t1.
MuteRequests ==
    [type : {"mute"}, target : {"s1"}, duration : {NoDuration} \cup 0..MaxDur] \cup
    [type : {"unmute", "warn"}, target : {"s1"}, duration : {NoDuration}] \cup
    [type : {"mute"}, target : {"t1"}, duration : {NoDuration}]

\* The requests a mute silences.
MuteSensitive == {"message:send", "voice:join", "video:join", "file:upload"}

NextMute ==
    \/ \E s \in MuteSockets : Connect(s, ClassIds)
    \/ \E c \in ClassIds : RoomJoin("k1", ClassRoomId(c))
    \/ \E c \in ClassIds : RoomModerate("k3", ClassRoomId(c), "mute", "s1")
    \/ \E q \in MuteRequests, r \in RoomIds : ApplyModeration(q.type, r, q.target, q.duration)
    \/ \E s \in MuteSockets, c \in ClassIds, action \in MuteSensitive :
          CheckPermission(s, ClassRoomId(c), action)
    \/ \E c \in ClassIds, u \in {"s1", "t1"} : GetStatus(ClassRoomId(c), u)
    \/ Cleanup
    \/ Tick

SpecMute == InitClass /\ [][NextMute]_vars

\* C6: right after the warn that brings an actor's warnings in a room to three
\* (or more) the actor is muted in that room, whatever the time since the
\* earlier warnings and whatever was applied to other actors in between.
C6_ThreeWarnsMute ==
    (/\ last.op = "moderation"
     /\ last.kind = "warn"
     /\ last.ok
     /\ getUserWarnings(userWarnings, last.r, last.target) >= 3)
    => isUserMuted(mutedUsers, last.r, last.target, now)

\* The third warning was applied after the clock had advanced, with a mute of
\* another actor in the store.
C6_Witness ==
    /\ last.op = "moderation"
    /\ last.kind = "warn"
    /\ getUserWarnings(userWarnings, last.r, last.target) = 3
    /\ now > 0
    /\ <<last.r, "t1">> \in DOMAIN mutedUsers
    /\ mutedUsers[<<last.r, last.target>>] = now + 10

\* C37: a warn applied to an actor whose mute in the room has not expired
\* never moves the stored mute expiry to an earlier time.
C37_WarnKeepsLongerMute ==
    [][(/\ last'.op = "moderation"
        /\ last'.kind = "warn"
        /\ last'.ok
        /\ isUserMuted(mutedUsers, last'.r, last'.target, now))
       => (/\ <<last'.r, last'.target>> \in DOMAIN mutedUsers'
           /\ mutedUsers'[<<last'.r, last'.target>>]
                  >= mutedUsers[<<last'.r, last'.target>>])]_vars

\* C38: a status query never reports an expiry for a restriction it reports as
\* inactive: muteExpiry is in the answer only with isMuted = TRUE, and banExpiry
\* only with isBanned = TRUE.
C38_ExpiryOnlyWhenActive ==
    last.op = "status"
    => /\ (last.status.hasMuteExpiry => last.status.isMuted)
       /\ (last.status.hasBanExpiry => last.status.isBanned)

C9_MutedActionsDenied ==
    (last.op = "check" /\ last.kind \in MuteSensitive /\ last.r \in DOMAIN rooms)
    => LET room == rooms[last.r]
           member == last.u \in room.memberIds /\ last.u \in DOMAIN roomMembers[last.r]
       IN /\ last.status.isMuted =>
                /\ ~last.ok
                /\ (member /\ ~last.status.isBanned) =>
                       last.reason = "User is muted in this room"
          /\ ~last.status.isMuted =>
                /\ last.reason # "User is muted in this room"
                /\ (/\ member
                    /\ ~last.status.isBanned
                    /\ checkActionPermission(last.u, room, last.kind, NoUser).allowed)
                   => last.ok

\* A message:send of an actor whose mute had expired, with no unmute and no
\* sweep since, was allowed.
C9_Witness ==
    /\ last.op = "check"
    /\ last.kind = "message:send"
    /\ last.status.hasMuteExpiry
    /\ now > last.status.muteExpiry
    /\ last.ok

\* C10: every mute reported as successful, by the moderation store or by
\* room:moderate, leaves the target's mute expiry at now + duration, 30 minutes
\* when no duration is given, and the target muted.
C10_MuteSetsExpiry ==
    (/\ last.op \in {"moderation", "room:moderate"}
     /\ last.kind = "mute"
     /\ last.ok)
    => /\ <<last.r, last.target>> \in DOMAIN mutedUsers
       /\ mutedUsers[<<last.r, last.target>>] =
              now + (IF last.dur = NoDuration THEN 30 ELSE last.dur)

\* -------------------------------------------------------- the ban specification

\* The moderation requests of the ban specification: bans and unbans of s1.
BanRequests ==
    [type : {"ban"}, target : {"s1"}, duration : {NoDuration} \cup 1..MaxDur] \cup
    [type : {"unban"}, target : {"s1"}, duration : {NoDuration}]

NextBan ==
    \/ \E s \in {"k1", "k2"} : Connect(s, ClassIds)
    \/ \E s \in {"k1", "k2"}, c \in ClassIds : RoomJoin(s, ClassRoomId(c))
    \/ \E s \in {"k1", "k2"}, c \in ClassIds : RoomLeave(s, ClassRoomId(c))
    \/ \E s \in {"k1", "k2"}, c \in ClassIds : JoinClass(s, c)
    \/ \E q \in BanRequests, c \in ClassIds :
          ApplyModeration(q.type, ClassRoomId(c), q.target, q.duration)
    \/ \E s \in {"k1", "k2"}, c \in ClassIds, action \in {"message:send", "room:invite"} :
          CheckPermission(s, ClassRoomId(c), action)
    \/ Cleanup
    \/ Tick

SpecBan == InitClass /\ [][NextBan]_vars

\* ------------------------------------------------ the registry specification

\* The room ids in the order RoomManager.rooms holds them: the class rooms
\* initializeRooms loaded, then the created rooms.
RoomOrder ==
    [i \in 1..(Cardinality(ClassIds) + MaxCreated) |->
        IF i <= Cardinality(ClassIds) THEN ClassRoomId(i)
        ELSE NewRoomId(i - Cardinality(ClassIds))]

\* WebSocketServer.createRoom(creatorId, roomData): RoomManager.createRoom
\* called by the server's own code, with no handler in front of it.
ServerCreateRoom(creatorId, name, kind, isPublic, maxMembers) ==
    /\ created < MaxCreated
    /\ LET id == NewRoomId(created + 1)
           c == createRoom(Reg, id, creatorId, name, kind[1], kind[2], isPublic, maxMembers)
       IN /\ Commit(c.reg)
          /\ created' = created + 1
          /\ last' = [NoLast EXCEPT !.op = "createRoom", !.u = creatorId, !.r = id,
                                    !.ok = c.returned]
    /\ UNCHANGED <<connVars, modVars, now, envVars>>

\* A call of RoomManager.deleteRoom.
DeleteRoom(r) ==
    /\ LET d == deleteRoom(Reg, r)
       IN /\ Commit(d.reg)
          /\ last' = [NoLast EXCEPT !.op = "deleteRoom", !.r = r, !.ok = d.success,
                                    !.bcast = d.bcast,
                                    !.kind = IF r \in DOMAIN rooms THEN "found" ELSE "absent"]
    /\ UNCHANGED <<created, connVars, modVars, now, envVars>>

\* The pass the cleanup interval of RoomManager runs every ten minutes.
PerformCleanup ==
    /\ LET p == performCleanup(Reg, RoomOrder)
       IN /\ Commit(p.reg)
          /\ last' = [NoLast EXCEPT !.op = "performCleanup", !.ok = TRUE, !.bcast = p.bcast]
    /\ UNCHANGED <<created, connVars, modVars, now, envVars>>

\* The Redis server goes away or comes back.
RedisFlip ==
    /\ redisUp' = ~redisUp
    /\ last' = [NoLast EXCEPT !.op = "redis"]
    /\ UNCHANGED <<regVars, connVars, modVars, now, nowMs, userCooldowns, acceptedAt, extVars>>

\* The clock of the registry specification advances by half the idle time.
HalfIdleMinutes == CleanupIdleMs \div 120000

TickHalfIdle ==
    /\ now + HalfIdleMinutes <= MaxIdleTime
    /\ now' = now + HalfIdleMinutes
    /\ last' = [NoLast EXCEPT !.op = "tick"]
    /\ UNCHANGED <<regVars, connVars, modVars, envVars>>

\* The connections of the registry specification: one of s1 and one of t1.
RegistrySockets == {"k1", "k3"}

NextRegistry ==
    \/ \E s \in RegistrySockets : Connect(s, ClassIds)
    \/ \E s \in RegistrySockets, r \in RoomIds : RoomJoin(s, r)
    \/ \E r \in RoomIds : RoomLeave("k1", r)
    \/ \E c \in ClassIds :
          RoomUpdate("k3", ClassRoomId(c), [allowMessaging |-> FALSE], 0)
    \/ \E name \in {"", " ", "A"} :
          ServerCreateRoom("s1", name, <<"group", NoClass>>, TRUE, 0)
    \/ \E r \in RoomIds : DeleteRoom(r)
    \/ RedisFlip

SpecRegistry == InitClass /\ [][NextRegistry]_vars

\* C16: deleteRoom of a room that exists emits one deletion notice, to every
\* connection joined to the room when the call began, and leaves the room id
\* out of the room map, the member map and every actor's room index;
\* deleteRoom of a room id that is not in the room map emits nothing and
\* changes nothing.
C16_DeleteNotifiesThenClears ==
    [][last'.op = "deleteRoom"
       => IF last'.r \in DOMAIN rooms
          THEN /\ Len(last'.bcast) = 1
               /\ last'.bcast[1].event = "system:announcement"
               /\ last'.bcast[1].to = {s \in Sockets : last'.r \in sockRooms[s]}
               /\ last'.r \notin DOMAIN rooms'
               /\ last'.r \notin DOMAIN roomMembers'
               /\ \A u \in Users : last'.r \notin userRooms'[u]
          ELSE /\ last'.bcast = <<>>
               /\ ~last'.ok
               /\ UNCHANGED regVars]_vars

\* A room with two joined member connections was deleted: both got the notice,
\* and both are out of the room afterwards.
C16_Witness ==
    /\ last.op = "deleteRoom"
    /\ last.kind = "found"
    /\ Len(last.bcast) = 1
    /\ Cardinality(last.bcast[1].to) = 2
    /\ last.r \notin DOMAIN rooms
    /\ \A s \in Sockets : last.r \notin sockRooms[s]

\* C18: no room in the registry has an empty or blank name, whichever entry
\* point created it.
C18_NoRoomWithoutName ==
    \A r \in DOMAIN rooms : ~nameMissing(rooms[r].name)

\* The operations that write to the backing store.
StoreOps == {"createRoom", "room:join", "room:leave", "room:update", "deleteRoom"}

\* The answers that report an operation as failed after an exception.
FailureAnswers ==
    {"Failed to create room", "Failed to join room", "Failed to leave room",
     "Failed to update room settings"}

\* C20: an operation that runs while the backing store is failing is never
\* answered as failed because of it: create, join, leave and update do not
\* answer with their failure message, and deleteRoom reports the same success
\* and leaves the same registry as it would with the store working.
C20_StoreFailureNotSurfaced ==
    [][(~redisUp /\ last'.op \in StoreOps)
       => /\ last'.reason \notin FailureAnswers
          /\ last'.op = "createRoom" => last'.ok
          /\ last'.op = "deleteRoom" =>
                LET d == deleteRoom([Reg EXCEPT !.redisUp = TRUE], last'.r)
                IN /\ last'.ok = d.success
                   /\ rooms' = d.reg.rooms
                   /\ roomMembers' = d.reg.members
                   /\ userRooms' = d.reg.index
                   /\ sockRooms' = d.reg.adapter]_vars

\* ------------------------------------------------- the cleanup specification

NextCleanup ==
    \/ \E s \in RegistrySockets : Connect(s, ClassIds)
    \/ \E r \in RoomIds : RoomJoin("k1", r)
    \/ \E r \in RoomIds : RoomLeave("k1", r)
    \/ \E c \in ClassIds :
          RoomUpdate("k3", ClassRoomId(c), [autoCleanup |-> FALSE], 0)
    \/ ServerCreateRoom("s1", "A", <<"group", NoClass>>, TRUE, 0)
    \/ PerformCleanup
    \/ TickHalfIdle

SpecCleanup == InitClass /\ [][NextCleanup]_vars

\* C17: a room the cleanup pass deletes has an empty member set and has been
\* idle for the cleanup duration of 24 hours.
C17_CleanupOnlyIdleEmpty ==
    [][last'.op = "performCleanup"
       => \A r \in (DOMAIN rooms) \ (DOMAIN rooms') :
             /\ rooms[r].memberIds = {}
             /\ DateNow - rooms[r].lastActivity >= CleanupIdleMs]_vars

\* ------------------------------------------------- the message specification

\* A call of RoomPermissionManager.checkMessageContent.
CheckMessage(r, u, length, config) ==
    /\ LET c == checkMessageContent(userCooldowns, DateNow, r, u, length, config)
       IN /\ userCooldowns' = c.cooldowns
          /\ acceptedAt' = IF c.allowed THEN Put(acceptedAt, <<r, u>>, DateNow)
                           ELSE acceptedAt
          /\ last' = [NoLast EXCEPT !.op = "message:check", !.r = r, !.target = u,
                                    !.ok = c.allowed, !.reason = c.reason,
                                    !.dur = config.cooldownPeriod,
                                    !.prior = IF <<r, u>> \in DOMAIN acceptedAt
                                              THEN acceptedAt[<<r, u>>] ELSE -1]
    /\ UNCHANGED <<regVars, connVars, modVars, now, nowMs, redisUp, extVars>>

\* The clock advances by half a second.
MsStep == 1000 \div 2

TickMs ==
    /\ nowMs + MsStep <= MaxMs
    /\ nowMs' = nowMs + MsStep
    /\ last' = [NoLast EXCEPT !.op = "tick"]
    /\ UNCHANGED <<regVars, connVars, modVars, now, redisUp, userCooldowns, acceptedAt,
                   extVars>>

\* The configurations of the message checks.
MessageConfigs ==
    [maxMessageLength : {MaxLength}, cooldownPeriod : 0..MaxCooldown, spamThreshold : {5}]

NextMessage ==
    \/ \E c \in ClassIds, u \in {"s1", "t1"}, length \in {1, MaxLength + 1},
          config \in MessageConfigs : CheckMessage(ClassRoomId(c), u, length, config)
    \/ TickMs

SpecMessage == InitClass /\ [][NextMessage]_vars

\* C19: a message check that allows comes at least its cooldown period after
\* the actor's previous allowed check in the room, and a check that rejects
\* (too long, in cooldown, spam) leaves the cooldown timestamps as they were.
C19_CooldownSpacing ==
    [][last'.op = "message:check"
       => LET k == <<last'.r, last'.target>>
          IN IF last'.ok
             THEN k \in DOMAIN acceptedAt => DateNow' - acceptedAt[k] >= last'.dur * 1000
             ELSE userCooldowns' = userCooldowns]_vars

\* A check was allowed exactly one cooldown period of two seconds after the
\* actor's previous allowed check.
C19_Witness ==
    /\ last.op = "message:check"
    /\ last.ok
    /\ last.dur = 2
    /\ last.prior >= 0
    /\ DateNow - last.prior = last.dur * 1000

\* ------------------------------------------------ the analytics specifications

\* What the claims read as an actor's session: it starts at the first event
\* recorded for the actor and at every join, and a leave closes it.
logActivity(L, r, u, activityType, t) ==
    LET l0 == IF <<r, u>> \in DOMAIN L THEN L[<<r, u>>]
              ELSE [start |-> t, open |-> TRUE, messages |-> <<>>]
        l1 == CASE activityType = "join" -> [l0 EXCEPT !.start = t, !.open = TRUE]
                [] activityType = "leave" -> [l0 EXCEPT !.open = FALSE]
                [] activityType = "message" -> [l0 EXCEPT !.messages = Append(@, t)]
                [] OTHER -> l0
    IN Put(L, <<r, u>>, l1)

\* A call of RoomAnalyticsManager.recordUserActivity.
RecordUserActivity(r, u, activityType, maxCount) ==
    /\ activityType = "message" =>
          (<<r, u>> \in DOMAIN userActivities
             => userActivities[<<r, u>>].messagesCount < maxCount)
    /\ userActivities' = recordUserActivity(userActivities, r, u, activityType, DateNow)
    /\ activityLog' = logActivity(activityLog, r, u, activityType, DateNow)
    /\ last' = [NoLast EXCEPT !.op = "activity", !.r = r, !.target = u, !.kind = activityType,
                              !.ok = TRUE]
    /\ UNCHANGED <<regVars, connVars, modVars, now, nowMs, redisUp, userCooldowns, acceptedAt,
                   metricsBuffer, sessVars, joining, rateVars>>

\* A call of RoomAnalyticsManager.generateRoomMetrics (a snapshot).
GenerateRoomMetrics(r, maxSamples) ==
    /\ LET g == generateRoomMetrics(Reg, userActivities, metricsBuffer, r, DateNow)
       IN /\ g.found => Len(g.buffer[r]) <= maxSamples
          /\ metricsBuffer' = g.buffer
          /\ last' = [NoLast EXCEPT !.op = "metrics", !.r = r, !.ok = g.found,
                                    !.result = g.metrics,
                                    !.prior = IF r \in DOMAIN metricsBuffer
                                              THEN Len(metricsBuffer[r]) ELSE 0]
    /\ UNCHANGED <<regVars, connVars, modVars, now, nowMs, redisUp, userCooldowns, acceptedAt,
                   userActivities, activityLog, sessVars, joining, rateVars>>

\* A call of RoomAnalyticsManager.generateRoomInsights.
GenerateRoomInsights(r, period) ==
    /\ LET g == generateRoomInsights(Reg, userActivities, metricsBuffer, r, period, DateNow)
       IN last' = [NoLast EXCEPT !.op = "insights", !.r = r, !.ok = g.found, !.kind = period,
                                 !.result = g.insights]
    /\ UNCHANGED <<regVars, connVars, modVars, envVars, now>>

\* The engagement specification: the events of two actors in the class room,
\* snapshots and insights, at one clock reading.
NextEngagement ==
    \/ \E c \in ClassIds : RecordUserActivity(ClassRoomId(c), "s1", "message", MaxMessages)
    \/ \E c \in ClassIds, u \in {"s1", "t1"}, activityType \in {"join", "leave"} :
          RecordUserActivity(ClassRoomId(c), u, activityType, MaxMessages)
    \/ \E r \in RoomIds : GenerateRoomMetrics(r, 1)
    \/ \E r \in RoomIds, period \in {"hour", "day"} : GenerateRoomInsights(r, period)

SpecEngagement == InitClass /\ [][NextEngagement]_vars

\* C22: the four engagement counts of a snapshot sum to the number of actors
\* tracked for the room; the actors with more than 10 messages are counted as
\* very active and the present actors with no message as lurkers.
C22_EngagementSums ==
    (last.op = "metrics" /\ last.ok)
    => LET tracked == roomActivities(userActivities, last.r)
           e == last.result.userEngagement
       IN /\ e.veryActive + e.active + e.passive + e.lurkers = Cardinality(tracked)
          /\ e.veryActive =
                Cardinality({k \in tracked : userActivities[k].messagesCount > 10})
          /\ e.lurkers =
                Cardinality({k \in tracked : /\ userActivities[k].messagesCount = 0
                                              /\ userActivities[k].isCurrentlyActive})

\* C24: a call of insights returns the numbers it returns when no snapshot
\* was taken before it, and so does a snapshot: earlier snapshots change only
\* the metrics history, so the state without them has the history empty.
C24_RepeatableResults ==
    /\ last.op = "insights" =>
          last.result = generateRoomInsights(Reg, userActivities, EmptyMap, last.r,
                                             last.kind, DateNow).insights
    /\ last.op = "metrics" =>
          last.result = generateRoomMetrics(Reg, userActivities, EmptyMap, last.r,
                                            DateNow).metrics

\* The clock of the activity specification advances by half an hour.
HalfHourMinutes == OneHourMs \div 120000

TickHalfHour ==
    /\ now + HalfHourMinutes <= MaxActivityTime
    /\ now' = now + HalfHourMinutes
    /\ last' = [NoLast EXCEPT !.op = "tick"]
    /\ UNCHANGED <<regVars, connVars, modVars, envVars>>

\* The activity specification: the events of one actor in the class room and
\* snapshots, against the clock.
NextActivity ==
    \/ \E c \in ClassIds, activityType \in {"message", "join", "leave"} :
          RecordUserActivity(ClassRoomId(c), "s1", activityType, MaxRecent)
    \/ \E c \in ClassIds : GenerateRoomMetrics(ClassRoomId(c), 1)
    \/ TickHalfHour

SpecActivity == InitClass /\ [][NextActivity]_vars

\* The message events recorded for room r at time t or later.
RECURSIVE messagesSince(_, _, _)
messagesSince(L, keys, t) ==
    IF keys = {} THEN 0
    ELSE LET k == CHOOSE x \in keys : TRUE
         IN Len(SelectSeq(L[k].messages, LAMBDA m : m >= t)) + messagesSince(L, keys \ {k}, t)

\* C29: the hourly message rate of a snapshot is the number of message events
\* recorded for the room within the hour before the snapshot, the events
\* exactly one hour old counted or not.
C29_HourlyRate ==
    (last.op = "metrics" /\ last.ok)
    => LET keys == roomActivities(activityLog, last.r)
       IN /\ last.result.messagesPerHour
                >= messagesSince(activityLog, keys, DateNow - OneHourMs + 1)
          /\ last.result.messagesPerHour
                <= messagesSince(activityLog, keys, DateNow - OneHourMs)

\* C30: a leave adds to the actor's total time the minutes elapsed since the
\* actor's session started (at the first event recorded for the actor, or at
\* the last join), and a leave without a join since the last leave adds nothing.
C30_LeaveAddsSessionTime ==
    [][(last'.op = "activity" /\ last'.kind = "leave")
       => LET k == <<last'.r, last'.target>>
              before == IF k \in DOMAIN userActivities
                        THEN userActivities[k].totalTimeSpent ELSE 0
              elapsed == IF k \in DOMAIN activityLog
                         THEN IF activityLog[k].open
                              THEN (DateNow - activityLog[k].start) \div MsPerMinute
                              ELSE 0
                         ELSE 0
          IN userActivities'[k].totalTimeSpent = before + elapsed]_vars

\* A leave an hour after the join added sixty minutes to a total that already
\* held an earlier session.
C30_Witness ==
    /\ last.op = "activity"
    /\ last.kind = "leave"
    /\ <<last.r, last.target>> \in DOMAIN userActivities
    /\ DateNow - userActivities[<<last.r, last.target>>].sessionStart = OneHourMs
    /\ userActivities[<<last.r, last.target>>].totalTimeSpent = 90
    /\ ~userActivities[<<last.r, last.target>>].isCurrentlyActive

\* The history specification: snapshots of the class room against a clock that
\* advances by twelve hours.
NextHistory ==
    \/ \E c \in ClassIds, activityType \in {"join", "leave"} :
          RecordUserActivity(ClassRoomId(c), "s1", activityType, MaxRecent)
    \/ \E r \in RoomIds : GenerateRoomMetrics(r, MaxSamples)
    \/ TickHalfIdle

SpecHistory == InitClass /\ [][NextHistory]_vars

\* C23: after a snapshot of a room the room's metrics history ends with the
\* new sample, and every sample in it was taken within the 24 hours before the
\* snapshot.
C23_HistoryWithinDay ==
    [][(last'.op = "metrics" /\ last'.ok)
       => LET history == metricsBuffer'[last'.r]
          IN /\ Len(history) >= 1
             /\ history[Len(history)] = last'.result
             /\ last'.result.timestamp = DateNow
             /\ \A i \in 1..Len(history) :
                   /\ history[i].timestamp > DateNow - OneDayMs
                   /\ history[i].timestamp <= DateNow]_vars

\* A snapshot evicted the samples taken a day or more before it: the history
\* held samples before the snapshot and holds only the new one after it.
C23_Witness ==
    /\ last.op = "metrics"
    /\ last.ok
    /\ last.prior >= 1
    /\ Len(metricsBuffer[last.r]) = 1

\* The moderation store as a run of the sweep at the present time leaves it.
SweptStore ==
    [Store EXCEPT !.muted = cleanupExpiredActions(@, now),
                  !.banned = cleanupExpiredActions(@, now)]

\* C27: every status query and every permission check returns what it returns
\* when the sweep has run just before it.
C27_SweepUnobservable ==
    [][ /\ last'.op = "status" =>
            last'.status = getUserModerationStatus(SweptStore, now, last'.r,
                                                   last'.target).status
        /\ last'.op = "check" =>
            LET h == hasRoomPermission(Reg, SweptStore.muted, SweptStore.banned, now,
                                       last'.s, last'.r, last'.kind, NoUser).res
            IN last'.ok = h.allowed /\ last'.reason = h.reason ]_vars

\* --------------------------------------------------- the session specification
\* The socket server's connection, event and disconnect handlers and the session
\* manager's requests, timer and shutdown, with no room loaded: the connection
\* handlers find no room to join or leave. extendUserSession, which nothing in
\* the repository calls, is not part of it.

SessVal == [sessions |-> sessions, userSessions |-> userSessions]

\* What the session specification leaves alone.
sessFrame == <<rooms, roomMembers, userRooms, created, overrideJoined, sockClassIds,
               classMembers, modVars, nowMs, redisUp, userCooldowns, acceptedAt, anaVars,
               joining, rateVars>>

\* The session maps become V, and socket.disconnect(true) closes those of the
\* sockets that are still connected: their disconnect handlers run and find no
\* session.
CommitSessions(V, sockets) ==
    LET closing == {s \in sockets : s \in Sockets /\ conn[s] = "open"}
    IN /\ sessions' = V.sessions
       /\ userSessions' = V.userSessions
       /\ conn' = [s \in Sockets |-> IF s \in closing THEN "closed" ELSE conn[s]]
       /\ ioSockets' = SelectSeq(ioSockets, LAMBDA x : x \notin closing)
       /\ userConnections' = [u \in Users |-> userConnections[u] \ closing]
       /\ sockRooms' = [s \in Sockets |-> IF s \in closing THEN {} ELSE sockRooms[s]]

\* The connection handler of the socket server: the session is created and the
\* connection registered.
SessionConnect(s) ==
    /\ conn[s] = "new"
    /\ conn' = [conn EXCEPT ![s] = "open"]
    /\ ioSockets' = Append(ioSockets, s)
    /\ userConnections' = [userConnections EXCEPT ![SocketUser(s)] = @ \cup {s}]
    /\ LET V == createSession(SessVal, s, DateNow)
       IN sessions' = V.sessions /\ userSessions' = V.userSessions
    /\ last' = [NoLast EXCEPT !.op = "connect", !.s = s, !.u = SocketUser(s), !.ok = TRUE]
    /\ UNCHANGED <<sockRooms, sessFrame, now>>

\* Any event of a connected socket: the socket.use middleware refreshes the
\* session's activity.
SocketEvent(s) ==
    /\ conn[s] = "open"
    /\ CommitSessions(updateSessionActivity(SessVal, s, DateNow), {})
    /\ last' = [NoLast EXCEPT !.op = "event", !.s = s, !.u = SocketUser(s), !.ok = TRUE]
    /\ UNCHANGED <<sessFrame, now>>

\* The disconnect handler of the socket server.
SessionDisconnect(s) ==
    /\ conn[s] = "open"
    /\ conn' = [conn EXCEPT ![s] = "closed"]
    /\ ioSockets' = RemoveFromSeq(ioSockets, s)
    /\ userConnections' = removeUserConnection(userConnections, SocketUser(s), s)
    /\ sockRooms' = [sockRooms EXCEPT ![s] = {}]
    /\ LET V == handleDisconnection(SessVal, s, DateNow)
       IN sessions' = V.sessions /\ userSessions' = V.userSessions
    /\ last' = [NoLast EXCEPT !.op = "disconnect", !.s = s, !.u = SocketUser(s), !.ok = TRUE]
    /\ UNCHANGED <<sessFrame, now>>

\* The auth:validate_session request, after the middleware.
ValidateSession(s) ==
    /\ conn[s] = "open"
    /\ LET v == validateSocketSession(updateSessionActivity(SessVal, s, DateNow), s, DateNow)
       IN /\ CommitSessions(v.store, v.sockets)
          /\ last' = [NoLast EXCEPT !.op = "auth:validate_session", !.s = s,
                                    !.u = SocketUser(s), !.ok = v.success, !.reason = v.error]
    /\ UNCHANGED <<sessFrame, now>>

\* The auth:logout request, after the middleware.
Logout(s, allDevices) ==
    /\ conn[s] = "open"
    /\ LET l == handleLogout(updateSessionActivity(SessVal, s, DateNow), s, allDevices)
       IN /\ CommitSessions(l.store, l.sockets)
          /\ last' = [NoLast EXCEPT !.op = "auth:logout", !.s = s, !.u = SocketUser(s),
                                    !.ok = TRUE, !.prior = l.count]
    /\ UNCHANGED <<sessFrame, now>>

\* EnhancedSocketServer.invalidateUserSessions, the admin's invalidation.
AdminInvalidate(u) ==
    /\ LET i == invalidateUserSessions(SessVal, u)
       IN /\ CommitSessions(i.store, i.sockets)
          /\ last' = [NoLast EXCEPT !.op = "admin:invalidate", !.target = u, !.ok = TRUE,
                                    !.prior = i.count]
    /\ UNCHANGED <<sessFrame, now>>

\* The pass the cleanup interval runs every five minutes.
CleanupSessions ==
    /\ LET c == cleanupExpiredSessions(SessVal, DateNow)
       IN /\ CommitSessions(c.store, c.sockets)
          /\ last' = [NoLast EXCEPT !.op = "session:cleanup", !.prior = c.count]
    /\ UNCHANGED <<sessFrame, now>>

\* EnhancedSocketServer.shutdown: every session is invalidated and the server
\* takes no further connection.
Shutdown ==
    /\ LET d == destroy(SessVal)
       IN /\ sessions' = d.store.sessions
          /\ userSessions' = d.store.userSessions
    /\ conn' = [s \in Sockets |-> "closed"]
    /\ ioSockets' = <<>>
    /\ userConnections' = [u \in Users |-> {}]
    /\ sockRooms' = [s \in Sockets |-> {}]
    /\ last' = [NoLast EXCEPT !.op = "shutdown"]
    /\ UNCHANGED <<sessFrame, now>>

\* The clock of the session specification: short steps of a minute more than
\* half the idle time, long steps of a minute more than the life of a session.
ShortTickMinutes == SessionIdleMs \div 120000 + 1
LongTickMinutes == SessionTtlMs \div MsPerMinute + 1

TickSession(d) ==
    /\ now + d <= MaxSessionTime
    /\ d = ShortTickMinutes => (now % LongTickMinutes) \div ShortTickMinutes < MaxShortTicks
    /\ now' = now + d
    /\ last' = [NoLast EXCEPT !.op = "tick"]
    /\ UNCHANGED <<regVars, connVars, modVars, envVars>>

\* The connections of the session specification: the two of s1.
SessionSockets == {"k1", "k2"}

NextSession ==
    \/ \E s \in SessionSockets : SessionConnect(s)
    \/ \E s \in SessionSockets : SocketEvent(s)
    \/ \E s \in SessionSockets : SessionDisconnect(s)
    \/ \E s \in SessionSockets : ValidateSession(s)
    \/ \E s \in SessionSockets, allDevices \in BOOLEAN : Logout(s, allDevices)
    \/ AdminInvalidate("s1")
    \/ CleanupSessions
    \/ Shutdown
    \/ \E d \in {ShortTickMinutes, LongTickMinutes} : TickSession(d)

SpecSession == Init /\ [][NextSession]_vars

\* The cleanup interval keeps firing.
SpecSessionLive == SpecSession /\ WF_vars(CleanupSessions)

\* A step takes session id out of the registry only as one of the requests ops,
\* or as the cleanup pass with the session past its expiry or idle for more than
\* an hour.
RemovedOnlyBy(ops) ==
    \A id \in DOMAIN sessions :
        id \notin DOMAIN sessions' =>
            \/ last'.op \in ops
            \/ /\ last'.op = "session:cleanup"
               /\ \/ DateNow > sessions[id].expiresAt
                  \/ DateNow - sessions[id].lastActivity > SessionIdleMs

\* A disconnect leaves every session in the registry, its own included.
DisconnectKeepsSession ==
    last'.op = "disconnect" =>
        /\ DOMAIN sessions' = DOMAIN sessions
        /\ last'.s \in DOMAIN sessions'

\* A cleanup pass leaves no session past its expiry or idle for more than an hour.
PassLeavesNoStale ==
    last'.op = "session:cleanup" =>
        \A id \in DOMAIN sessions' :
            /\ ~(DateNow > sessions'[id].expiresAt)
            /\ ~(DateNow - sessions'[id].lastActivity > SessionIdleMs)

\* A session past its expiry, or idle for more than an hour with its socket
\* closed, is eventually out of the registry.
StaleEventuallyRemoved ==
    \A id \in SessionSockets :
        ( /\ id \in DOMAIN sessions
          /\ \/ DateNow > sessions[id].expiresAt
             \/ /\ DateNow - sessions[id].lastActivity > SessionIdleMs
                /\ conn[id] = "closed" )
        ~> (id \notin DOMAIN sessions)

logAllowed(G, k, c) ==
    IF ~c.allowed \/ ~c.limited THEN G
    ELSE IF k \in DOMAIN G /\ G[k].resetTime = c.resetTime
    THEN [G EXCEPT ![k].n = @ + 1]
    ELSE Put(G, k, [resetTime |-> c.resetTime, n |-> 1])

\* The checkRateLimit middleware of an event of a connected socket.
CheckLimit(s, eventType) ==
    /\ LET c == checkLimit(limits, s, eventType, DateNow)
       IN /\ limits' = c.limits
          /\ allowedLog' = logAllowed(allowedLog, <<s, eventType>>, c)
          /\ last' = [NoLast EXCEPT !.op = "rate:check", !.s = s, !.kind = eventType,
                                    !.ok = c.allowed,
                                    !.prior = IF <<s, eventType>> \in DOMAIN limits
                                              THEN limits[<<s, eventType>>].count ELSE -1,
                                    !.result = [remaining |-> c.remaining,
                                                resetTime |-> c.resetTime,
                                                total |-> c.total]]
    /\ UNCHANGED <<regVars, connVars, modVars, now, nowMs, redisUp, userCooldowns,
                   acceptedAt, anaVars, sessVars, joining>>

\* A call of recordSuccess or recordFailure.
RecordOutcome(s, eventType, flag) ==
    /\ limits' = recordOutcome(limits, s, eventType, flag)
    /\ last' = [NoLast EXCEPT !.op = "rate:record", !.s = s, !.kind = eventType]
    /\ UNCHANGED <<regVars, connVars, modVars, now, nowMs, redisUp, userCooldowns,
                   acceptedAt, anaVars, sessVars, joining, allowedLog>>

\* The pass the cleanup interval of the rate limiter runs.
RateCleanup ==
    /\ limits' = rateCleanup(limits, DateNow)
    /\ last' = [NoLast EXCEPT !.op = "rate:cleanup"]
    /\ UNCHANGED <<regVars, connVars, modVars, now, nowMs, redisUp, userCooldowns,
                   acceptedAt, anaVars, sessVars, joining, allowedLog>>

\* The clock advances by half a window.
HalfWindowMs == 60000 \div 2

TickHalfWindow ==
    /\ nowMs + HalfWindowMs <= MaxRateMs
    /\ nowMs' = nowMs + HalfWindowMs
    /\ last' = [NoLast EXCEPT !.op = "tick"]
    /\ UNCHANGED <<regVars, connVars, modVars, now, redisUp, userCooldowns, acceptedAt,
                   extVars>>

\* The checks of the rate specification: message:delete (5 a minute) on two
\* sockets, join:class (10 a minute) and an event without a limit on one.
RateChecks ==
    ({"k1", "k2"} \X {"message:delete"}) \cup ({"k1"} \X {"join:class", "room:info"})

NextRate ==
    \/ \E q \in RateChecks : CheckLimit(q[1], q[2])
    \/ \E q \in RateChecks, flag \in {"skipSuccessfulRequests", "skipFailedRequests"} :
          RecordOutcome(q[1], q[2], flag)
    \/ RateCleanup
    \/ TickHalfWindow

SpecRate == Init /\ [][NextRate]_vars

\* C32: for each socket and each event type with a limit, the allowed checks of
\* one window are at most maxRequests, the stored count is at most maxRequests, a
\* denied check leaves the count as it is, and a check at or after the reset time
\* of the stored window is allowed.
C32_RateLimitWindow ==
    [][ /\ \A k \in DOMAIN allowedLog' : allowedLog'[k].n <= RateConfigs[k[2]].maxRequests
        /\ \A k \in DOMAIN limits' : limits'[k].count <= RateConfigs[k[2]].maxRequests
        /\ (last'.op = "rate:check" /\ ~last'.ok) =>
              LET k == <<last'.s, last'.kind>>
              IN k \in DOMAIN limits /\ limits'[k].count = limits[k].count
        /\ (last'.op = "rate:check" /\ <<last'.s, last'.kind>> \in DOMAIN limits) =>
              LET k == <<last'.s, last'.kind>>
              IN DateNow >= limits[k].resetTime =>
                    last'.ok /\ limits'[k].count = 1 ]_vars

\* A message:delete check of k1 was allowed at the very reset time of a window
\* in which k1 had used all five, while k2 is at five in a window still open.
C32_Witness ==
    /\ last.op = "rate:check" /\ last.ok /\ last.kind = "message:delete"
    /\ last.s = "k1"
    /\ last.prior = 5
    /\ DateNow = 60000
    /\ limits[<<"k1", "message:delete">>].count = 1
    /\ <<"k2", "message:delete">> \in DOMAIN limits
    /\ limits[<<"k2", "message:delete">>].count = 5
    /\ limits[<<"k2", "message:delete">>].resetTime > DateNow

\* ---------------------------------------------------- the health specification

\* A reaction recorded by recordUserActivity, while the counter is below its cap.
RecordReaction(r, u) ==
    /\ <<r, u>> \in DOMAIN userActivities =>
           userActivities[<<r, u>>].reactionsGiven < MaxReactions
    /\ RecordUserActivity(r, u, "reaction", MaxMessages)

\* A call of RoomAnalyticsManager.generateRoomHealthMetrics.
GenerateRoomHealthMetrics(r) ==
    /\ LET h == generateRoomHealthMetrics(Reg, userActivities, metricsBuffer, r, DateNow)
       IN last' = [NoLast EXCEPT !.op = "health", !.r = r, !.ok = h.found,
                                 !.result = h.health]
    /\ UNCHANGED <<regVars, connVars, modVars, now, envVars>>

NextHealth ==
    \/ Connect("k1", ClassIds)
    \/ \E c \in ClassIds : RoomLeave("k1", ClassRoomId(c))
    \/ \E c \in ClassIds : RecordUserActivity(ClassRoomId(c), "s1", "message", MaxMessages)
    \/ \E c \in ClassIds : RecordReaction(ClassRoomId(c), "s1")
    \/ \E r \in RoomIds : GenerateRoomHealthMetrics(r)

SpecHealth == InitClass /\ [][NextHealth]_vars

\* A number in 0..100.
IsScore(x) == x.kind = "num" /\ 0 <= x.n /\ x.n <= 100 * x.d

\* C31: the engagement, participation, moderation and growth scores of a room
\* are numbers in 0..100, for a room with no member and a room with no recorded
\* activity too.
C31_HealthScoresInRange ==
    (last.op = "health" /\ last.ok) =>
        /\ IsScore(last.result.engagement)
        /\ IsScore(last.result.participation)
        /\ IsScore(last.result.moderation)
        /\ IsScore(last.result.growth)

\* ------------------------------------------------------ the rank specification

\* A call of RoomPermissionManager.hasRoomPermission for an action of the
\* socket's user against a target in room r.
CheckPermissionOn(s, r, action, target) ==
    /\ conn[s] = "open"
    /\ LET h == hasRoomPermission(Reg, mutedUsers, bannedUsers, now, s, r, action, target)
       IN /\ mutedUsers' = h.muted
          /\ bannedUsers' = h.banned
          /\ last' = [NoLast EXCEPT !.op = "check", !.s = s, !.u = SocketUser(s), !.r = r,
                                    !.kind = action, !.target = target,
                                    !.ok = h.res.allowed, !.reason = h.res.reason]
    /\ UNCHANGED <<regVars, connVars, userWarnings, now, envVars>>

\* The connections of the rank specification: one of t1, the owner of the class
\* room, and one of a1, the global admin.
RankSockets == {"k3", "k4"}

\* The member actions checkActionPermission ranks.
RankedActions == {"member:mute", "member:unmute", "member:warn", "member:kick",
                  "member:ban", "member:unban"}

NextRank ==
    \/ \E s \in RankSockets : Connect(s, ClassIds)
    \/ \E c \in ClassIds : RoomJoin("k4", ClassRoomId(c))
    \/ \E c \in ClassIds, action \in {"promote", "demote"} :
          RoomModerate("k3", ClassRoomId(c), action, "s1")
    \/ \E s \in RankSockets, c \in ClassIds, action \in RankedActions, target \in Users :
          CheckPermissionOn(s, ClassRoomId(c), action, target)

SpecRank == InitClass /\ [][NextRank]_vars

\* C26: a global admin who is a member of the room is allowed each of mute,
\* unmute, warn, kick, ban and unban against any other member, the owner and the
\* moderators included.
C26_AdminOutranksAll ==
    ( /\ last.op = "check"
      /\ last.kind \in RankedActions
      /\ UserRole(last.u) = "ADMIN"
      /\ last.r \in DOMAIN rooms
      /\ last.u \in rooms[last.r].memberIds
      /\ last.u \in DOMAIN roomMembers[last.r]
      /\ last.target \in rooms[last.r].memberIds \ {last.u} )
    => last.ok

\* ------------------------------------------------ the join race specification

\* The cap of the join race specification on the activeMembers counter.
RaceCaps(R) == \A r \in DOMAIN R.rooms : R.rooms[r].activeMembers <= MaxActive + 1

\* The room:join handler up to the first suspension of joinRoom.
JoinBegin(s, r) ==
    /\ conn[s] = "open"
    /\ joining[s].pc = "idle"
    /\ LET c == joinRoomCheck(Reg, s, r, TRUE)
       IN IF r \notin DOMAIN rooms
          THEN /\ last' = Refused("room:join", s, "Room not found")
               /\ UNCHANGED <<regVars, joining>>
          ELSE IF /\ rooms[r].roomType = "class"
                  /\ rooms[r].classId # NoClass
                  /\ ~hasPermission(s, sockClassIds[s], "class:join", rooms[r].classId)
          THEN /\ last' = Refused("room:join", s,
                                       "Permission denied: Cannot join this class room")
               /\ UNCHANGED <<regVars, joining>>
          ELSE IF ~c.passed
          THEN /\ last' = [Refused("room:join", s, c.message) EXCEPT !.r = r]
               /\ UNCHANGED <<regVars, joining>>
          ELSE /\ Commit(c.reg)
               /\ UNCHANGED created
               /\ joining' = [joining EXCEPT ![s] = [NotJoining EXCEPT !.pc = "joined", !.r = r]]
               /\ last' = [NoLast EXCEPT !.op = "room:join:check", !.s = s,
                                         !.u = SocketUser(s), !.r = r]
    /\ UNCHANGED <<connVars, modVars, now, nowMs, redisUp, userCooldowns, acceptedAt,
                   anaVars, sessVars, rateVars>>

\* joinRoom resumes after socket.join and runs to its second suspension.
JoinInsert(s) ==
    /\ joining[s].pc = "joined"
    /\ LET R1 == IF joining[s].r \in DOMAIN rooms
                 THEN joinRoomInsert(Reg, s, joining[s].r, "member")
                 ELSE joinRoomInsertDeleted(Reg, s, joining[s].r, "member", joining[s].room)
       IN /\ RaceCaps(R1)
          /\ Commit(R1)
    /\ joining' = [joining EXCEPT ![s].pc = "stored"]
    /\ last' = [NoLast EXCEPT !.op = "room:join:insert", !.s = s, !.u = SocketUser(s),
                              !.r = joining[s].r]
    /\ UNCHANGED <<created, connVars, modVars, now, nowMs, redisUp, userCooldowns, acceptedAt,
                   anaVars, sessVars, rateVars>>

\* joinRoom resumes after storeRoomInRedis, broadcasts and returns, and the
\* handler answers.
JoinFinish(s) ==
    /\ joining[s].pc = "stored"
    /\ LET f == joinRoomFinish(Reg, s, joining[s].r)
       IN last' = [NoLast EXCEPT !.op = "room:join", !.s = s, !.u = SocketUser(s),
                                 !.r = joining[s].r, !.ok = f.success, !.reason = f.message,
                                 !.bcast = f.bcast]
    /\ joining' = [joining EXCEPT ![s] = NotJoining]
    /\ UNCHANGED <<regVars, connVars, modVars, now, nowMs, redisUp, userCooldowns, acceptedAt,
                   anaVars, sessVars, rateVars>>

\* The connections of the join race: t1, who creates the room, and s1 and a1,
\* who join it.
RaceSockets == {"k1", "k3", "k4"}
RaceJoiners == {"k1", "k4"}

NextJoinRace ==
    \/ \E s \in RaceSockets : Connect(s, {})
    \/ \E maxMembers \in 1..MaxCap :
          RoomCreate("k3", "A", <<"group", NoClass>>, TRUE, maxMembers)
    \/ \E s \in RaceJoiners, r \in CreatedRoomIds : JoinBegin(s, r)
    \/ \E s \in RaceJoiners : JoinInsert(s)
    \/ \E s \in RaceJoiners : JoinFinish(s)

SpecJoinRace == Init /\ [][NextJoinRace]_vars

\* C25: with the joins of two actors who are not moderators in flight together
\* for a room with one free slot, each suspending at its awaits, the member
\* count never exceeds maxMembers.
C25_NoOvershootInRace ==
    \A r \in DOMAIN rooms : Cardinality(rooms[r].memberIds) <= rooms[r].maxMembers

\* ---------------------------------------------- the delete race specification

\* The cleanup pass running while calls of joinRoom are suspended at
\* socket.join: each such call keeps the object of its room, deleted or not.
CleanupDuringJoin ==
    /\ LET p == performCleanup(Reg, RoomOrder)
       IN /\ Commit(p.reg)
          /\ last' = [NoLast EXCEPT !.op = "performCleanup", !.ok = TRUE, !.bcast = p.bcast]
          /\ joining' = [s \in Sockets |->
                IF /\ joining[s].pc = "joined"
                   /\ joining[s].r \in DOMAIN rooms
                   /\ joining[s].r \notin DOMAIN p.reg.rooms
                THEN [joining[s] EXCEPT !.room = rooms[joining[s].r]]
                ELSE joining[s]]
    /\ UNCHANGED <<created, connVars, modVars, now, nowMs, redisUp, userCooldowns, acceptedAt,
                   anaVars, sessVars, rateVars>>

NextDeleteRace ==
    \/ Connect("k1", {})
    \/ ServerCreateRoom("t1", "A", <<"group", NoClass>>, TRUE, 0)
    \/ \E r \in CreatedRoomIds : JoinBegin("k1", r)
    \/ JoinInsert("k1")
    \/ JoinFinish("k1")
    \/ CleanupDuringJoin
    \/ TickHalfIdle

SpecDeleteRace == Init /\ [][NextDeleteRace]_vars

\* C35: once the deletion of a room has completed, neither the member map nor
\* the per-actor index holds an entry for the deleted room id, also when a
\* join of that room was suspended at an await while the deletion ran.
C35_DeletedIdGone ==
    \A r \in CreatedRoomIds :
        (r[2] <= created /\ r \notin DOMAIN rooms)
        => (r \notin DOMAIN roomMembers /\ \A u \in Users : r \notin userRooms[u])

\* ------------------------------------------------- the devices specification

\* The connections of the devices specification: two devices of s1, and t1.
DeviceSockets == {"k1", "k2", "k3"}

NextDevices ==
    \/ \E s \in DeviceSockets : Connect(s, {})
    \/ \E s \in {"k1", "k2"} : Disconnect(s)
    \/ ServerCreateRoom("t1", "A", <<"group", NoClass>>, TRUE, 0)
    \/ \E s \in {"k1", "k2"}, r \in CreatedRoomIds : RoomJoin(s, r)
    \/ \E s \in DeviceSockets, r \in CreatedRoomIds : RoomLeave(s, r)
    \/ PerformCleanup
    \/ TickHalfIdle

SpecDevices == Init /\ [][NextDevices]_vars

\* ------------------------------------------------ the tracking specification

\* The loop the connection handler, the disconnect handler and the socket.use
\* middleware run: recordUserActivity for each room getUserRooms returns.
recordConnectionActivity(A, R, u, activityType, t) ==
    LET rs == getUserRooms(R, u)
    IN [k \in DOMAIN A \cup {<<r, u>> : r \in rs} |->
           IF k[2] = u /\ k[1] \in rs
           THEN recordUserActivity(A, k[1], u, activityType, t)[k]
           ELSE A[k]]

\* The same loop on the history of the sessions.
logConnectionActivity(L, R, u, activityType, t) ==
    LET rs == getUserRooms(R, u)
    IN [k \in DOMAIN L \cup {<<r, u>> : r \in rs} |->
           IF k[2] = u /\ k[1] \in rs
           THEN logActivity(L, k[1], u, activityType, t)[k]
           ELSE L[k]]

\* event.includes('message') || event.includes('room'), on the event names of
\* the tracking specification.
includesMessageOrRoom(event) ==
    CASE event = "message:send" -> TRUE
      [] event = "room:get_info" -> TRUE
      [] event = "typing:start" -> FALSE

\* The connection handler of the socket server: the session is created, and
\* ConnectionManager.handleConnection registers the connection, joins the
\* socket to the rooms of the actor and records a join for each of them.
ServerConnection(s) ==
    /\ conn[s] = "new"
    /\ LET u == SocketUser(s)
           a == autoJoinUserRooms(Reg, classMembers, s, getUserRooms(Reg, u))
           V == createSession(SessVal, s, DateNow)
       IN /\ WithinCaps(a.reg)
          /\ Commit(a.reg)
          /\ classMembers' = a.classMembers
          /\ sessions' = V.sessions
          /\ userSessions' = V.userSessions
          /\ userActivities' = recordConnectionActivity(userActivities, Reg, u, "join", DateNow)
          /\ activityLog' = logConnectionActivity(activityLog, Reg, u, "join", DateNow)
          /\ last' = [NoLast EXCEPT !.op = "connect", !.s = s, !.u = u, !.ok = TRUE,
                                    !.bcast = a.bcast]
    /\ conn' = [conn EXCEPT ![s] = "open"]
    /\ ioSockets' = Append(ioSockets, s)
    /\ sockClassIds' = [sockClassIds EXCEPT ![s] = ClassIds]
    /\ userConnections' = [userConnections EXCEPT ![SocketUser(s)] = @ \cup {s}]
    /\ UNCHANGED <<created, modVars, now, nowMs, redisUp, userCooldowns, acceptedAt,
                   metricsBuffer, joining, rateVars>>

\* The disconnect handler of the socket server:
\* ConnectionManager.handleDisconnection records a leave for each room of the
\* actor and drops the connection, and the session manager notes the time.
ServerDisconnect(s) ==
    /\ conn[s] = "open"
    /\ LET u == SocketUser(s)
           connections1 == removeUserConnection(userConnections, u, s)
           adapter1 == [sockRooms EXCEPT ![s] = {}]
           off == offlineClasses(classMembers, connections1, u, sockClassIds[s])
           V == handleDisconnection(SessVal, s, DateNow)
       IN /\ userActivities' = recordConnectionActivity(userActivities, Reg, u, "leave", DateNow)
          /\ activityLog' = logConnectionActivity(activityLog, Reg, u, "leave", DateNow)
          /\ userConnections' = connections1
          /\ sockRooms' = adapter1
          /\ classMembers' = [c \in ClassIds |->
                                IF c \in off THEN classMembers[c] \ {u} ELSE classMembers[c]]
          /\ sessions' = V.sessions
          /\ userSessions' = V.userSessions
          /\ last' = [NoLast EXCEPT !.op = "disconnect", !.s = s, !.u = u, !.ok = TRUE,
                                    !.wasLast = (connections1[u] = {}),
                                    !.inRooms = getUserRooms(Reg, u),
                                    !.bcast = offlineBroadcasts(adapter1, off)]
    /\ conn' = [conn EXCEPT ![s] = "closed"]
    /\ ioSockets' = RemoveFromSeq(ioSockets, s)
    /\ UNCHANGED <<rooms, roomMembers, userRooms, created, overrideJoined, sockClassIds,
                   modVars, now, nowMs, redisUp, userCooldowns, acceptedAt, metricsBuffer,
                   joining, rateVars>>

\* An event of a connected socket that names room r, through the socket.use
\* middleware: the session's activity is refreshed and, for an event whose
\* name includes 'message' or 'room', a message is recorded for each room of
\* the actor.  The handlers of room:get_info and typing:start change nothing
\* of the state.
SocketUse(s, event, r) ==
    /\ conn[s] = "open"
    /\ LET u == SocketUser(s)
           V == updateSessionActivity(SessVal, s, DateNow)
       IN /\ sessions' = V.sessions
          /\ userSessions' = V.userSessions
          /\ IF includesMessageOrRoom(event)
             THEN /\ \A x \in getUserRooms(Reg, u) :
                        <<x, u>> \in DOMAIN userActivities
                           => userActivities[<<x, u>>].messagesCount < MaxRecent
                  /\ userActivities' =
                        recordConnectionActivity(userActivities, Reg, u, "message", DateNow)
                  /\ activityLog' =
                        logConnectionActivity(activityLog, Reg, u, "message", DateNow)
             ELSE UNCHANGED <<userActivities, activityLog>>
          /\ last' = [NoLast EXCEPT !.op = "event", !.s = s, !.u = u, !.r = r,
                                    !.kind = event, !.ok = TRUE]
    /\ UNCHANGED <<regVars, connVars, modVars, now, nowMs, redisUp, userCooldowns, acceptedAt,
                   metricsBuffer, joining, rateVars>>

\* The events of the tracking specification.
TrackedEvents == {"message:send", "room:get_info", "typing:start"}

NextTracking ==
    \/ \E s \in {"k1", "k2"} : ServerConnection(s)
    \/ \E s \in {"k1", "k2"} : ServerDisconnect(s)
    \/ ServerCreateRoom("s1", "A", <<"group", NoClass>>, TRUE, 0)
    \/ \E s \in {"k1", "k2"}, event \in TrackedEvents, r \in RoomIds : SocketUse(s, event, r)

SpecTracking == InitClass /\ [][NextTracking]_vars

\* C39: the message count of an actor in a room increases only in a step in
\* which that actor sends a message to that room; room management events and
\* messages sent to other rooms do not increase it.
C39_CountOnlyOnOwnMessage ==
    [][\A r \in RoomIds : \A u \in Users :
          (/\ <<r, u>> \in DOMAIN userActivities'
           /\ userActivities'[<<r, u>>].messagesCount >
                  (IF <<r, u>> \in DOMAIN userActivities
                   THEN userActivities[<<r, u>>].messagesCount ELSE 0))
          => (/\ last'.op = "event"
              /\ last'.kind = "message:send"
              /\ last'.u = u
              /\ last'.r = r)]_vars

\* C40: the close of one connection of an actor who has another connection
\* open leaves the actor active in the analytics of every room in which the
\* actor was active.
C40_StillActiveWithOtherDevice ==
    [][(last'.op = "disconnect" /\ userConnections'[last'.u] # {})
       => \A k \in DOMAIN userActivities :
             (k[2] = last'.u /\ userActivities[k].isCurrentlyActive)
             => userActivities'[k].isCurrentlyActive]_vars

\* C8: an actor with an unexpired ban in a room is denied what it asks in that
\* room: joining it by room:join or join:class, and every checked action.
C8_BannedDenied ==
    (/\ last.op \in {"room:join", "join:class", "check"}
     /\ last.r \in DOMAIN rooms
     /\ isUserBanned(bannedUsers, last.r, last.u, now))
    => ~last.ok

====
